---------------------------- MODULE Spec2Model ----------------------------
(***************************************************************************)
(* The POST /chat handlers of the VT Woods chat backend.  The repository   *)
(* holds four versions of the server:                                      *)
(*                                                                         *)
(*   "kw"   src/server.js 1-245     keyword scope gate, Responses API      *)
(*   "esm"  src/server.js 247-424   ES-module server, regex triggers       *)
(*   "asst" src/server.js 426-527   Assistants API (threads and runs)      *)
(*   "ret"  src/unnamed/part_000    retrieval-relevance gate, then answer  *)
(*                                                                         *)
(* A JavaScript string is the sequence of its UTF-16 code units, each a    *)
(* number, so that trim, toLowerCase, includes, JSON.parse and the regular *)
(* expressions are computed on the code units as the engine does.  A JSON  *)
(* response is a record whose keys field names the members the body        *)
(* carries.                                                                *)
(***************************************************************************)
EXTENDS Naturals, Sequences, FiniteSets, TLC

\* "ABCDEFGHIJKLMNOPQRSTUVWXYZ"
UpperCase == <<65, 66, 67, 68, 69, 70, 71, 72, 73, 74, 75, 76, 77, 78,
      79, 80, 81, 82, 83, 84, 85, 86, 87, 88, 89, 90>>
\* "abcdefghijklmnopqrstuvwxyz"
LowerCase == <<97, 98, 99, 100, 101, 102, 103, 104, 105, 106, 107, 108,
      109, 110, 111, 112, 113, 114, 115, 116, 117, 118, 119, 120, 121, 122>>
\* "0123456789"
Digits == <<48, 49, 50, 51, 52, 53, 54, 55, 56, 57>>

Range(s) == {s[i] : i \in 1..Len(s)}

\* \w of a JavaScript regular expression (no u flag): [A-Za-z0-9_].
WordChars == Range(UpperCase) \cup Range(LowerCase) \cup Range(Digits) \cup Range(<<
      95>>)

\* White space and line terminators: the code units String.prototype.trim
\* removes and \s of a regular expression matches.  U+0009..U+000D, U+0020,
\* U+00A0, U+1680, U+2000..U+200A, U+2028, U+2029, U+202F, U+205F, U+3000,
\* U+FEFF.
WhiteSpace ==
    (9..13) \cup {32, 160, 5760} \cup (8192..8202) \cup {8232, 8233, 8239, 8287, 12288, 65279}

(***************************************************************************)
(* The data of String.prototype.toLowerCase: the default case conversion   *)
(* of the Unicode standard (version 17.0), on code points.                 *)
(***************************************************************************)
\* <<first, last, step, lower>>: the code points first, first + step, ...,
\* last have the lower-case forms lower, lower + step, ... .  No code point
\* is in two of them; a code point in none is its own lower-case form
\* (U+0130 apart, which becomes the two code points U+0069 U+0307).
LowerRanges == {
    <<65, 90, 1, 97>>, <<192, 214, 1, 224>>, <<216, 222, 1, 248>>,
    <<256, 302, 2, 257>>, <<306, 310, 2, 307>>, <<313, 327, 2, 314>>,
    <<330, 374, 2, 331>>, <<376, 376, 1, 255>>, <<377, 381, 2, 378>>,
    <<385, 385, 1, 595>>, <<386, 388, 2, 387>>, <<390, 390, 1, 596>>,
    <<391, 391, 1, 392>>, <<393, 394, 1, 598>>, <<395, 395, 1, 396>>,
    <<398, 398, 1, 477>>, <<399, 399, 1, 601>>, <<400, 400, 1, 603>>,
    <<401, 401, 1, 402>>, <<403, 403, 1, 608>>, <<404, 404, 1, 611>>,
    <<406, 406, 1, 617>>, <<407, 407, 1, 616>>, <<408, 408, 1, 409>>,
    <<412, 412, 1, 623>>, <<413, 413, 1, 626>>, <<415, 415, 1, 629>>,
    <<416, 420, 2, 417>>, <<422, 422, 1, 640>>, <<423, 423, 1, 424>>,
    <<425, 425, 1, 643>>, <<428, 428, 1, 429>>, <<430, 430, 1, 648>>,
    <<431, 431, 1, 432>>, <<433, 434, 1, 650>>, <<435, 437, 2, 436>>,
    <<439, 439, 1, 658>>, <<440, 440, 1, 441>>, <<444, 444, 1, 445>>,
    <<452, 452, 1, 454>>, <<453, 453, 1, 454>>, <<455, 455, 1, 457>>,
    <<456, 456, 1, 457>>, <<458, 458, 1, 460>>, <<459, 475, 2, 460>>,
    <<478, 494, 2, 479>>, <<497, 497, 1, 499>>, <<498, 500, 2, 499>>,
    <<502, 502, 1, 405>>, <<503, 503, 1, 447>>, <<504, 542, 2, 505>>,
    <<544, 544, 1, 414>>, <<546, 562, 2, 547>>, <<570, 570, 1, 11365>>,
    <<571, 571, 1, 572>>, <<573, 573, 1, 410>>, <<574, 574, 1, 11366>>,
    <<577, 577, 1, 578>>, <<579, 579, 1, 384>>, <<580, 580, 1, 649>>,
    <<581, 581, 1, 652>>, <<582, 590, 2, 583>>, <<880, 882, 2, 881>>,
    <<886, 886, 1, 887>>, <<895, 895, 1, 1011>>, <<902, 902, 1, 940>>,
    <<904, 906, 1, 941>>, <<908, 908, 1, 972>>, <<910, 911, 1, 973>>,
    <<913, 929, 1, 945>>, <<931, 939, 1, 963>>, <<975, 975, 1, 983>>,
    <<984, 1006, 2, 985>>, <<1012, 1012, 1, 952>>, <<1015, 1015, 1, 1016>>,
    <<1017, 1017, 1, 1010>>, <<1018, 1018, 1, 1019>>, <<1021, 1023, 1, 891>>,
    <<1024, 1039, 1, 1104>>, <<1040, 1071, 1, 1072>>, <<1120, 1152, 2, 1121>>,
    <<1162, 1214, 2, 1163>>, <<1216, 1216, 1, 1231>>, <<1217, 1229, 2, 1218>>,
    <<1232, 1326, 2, 1233>>, <<1329, 1366, 1, 1377>>,
    <<4256, 4293, 1, 11520>>, <<4295, 4295, 1, 11559>>,
    <<4301, 4301, 1, 11565>>, <<5024, 5103, 1, 43888>>,
    <<5104, 5109, 1, 5112>>, <<7305, 7305, 1, 7306>>, <<7312, 7354, 1, 4304>>,
    <<7357, 7359, 1, 4349>>, <<7680, 7828, 2, 7681>>, <<7838, 7838, 1, 223>>,
    <<7840, 7934, 2, 7841>>, <<7944, 7951, 1, 7936>>, <<7960, 7965, 1, 7952>>,
    <<7976, 7983, 1, 7968>>, <<7992, 7999, 1, 7984>>, <<8008, 8013, 1, 8000>>,
    <<8025, 8031, 2, 8017>>, <<8040, 8047, 1, 8032>>, <<8072, 8079, 1, 8064>>,
    <<8088, 8095, 1, 8080>>, <<8104, 8111, 1, 8096>>, <<8120, 8121, 1, 8112>>,
    <<8122, 8123, 1, 8048>>, <<8124, 8124, 1, 8115>>, <<8136, 8139, 1, 8050>>,
    <<8140, 8140, 1, 8131>>, <<8152, 8153, 1, 8144>>, <<8154, 8155, 1, 8054>>,
    <<8168, 8169, 1, 8160>>, <<8170, 8171, 1, 8058>>, <<8172, 8172, 1, 8165>>,
    <<8184, 8185, 1, 8056>>, <<8186, 8187, 1, 8060>>, <<8188, 8188, 1, 8179>>,
    <<8486, 8486, 1, 969>>, <<8490, 8490, 1, 107>>, <<8491, 8491, 1, 229>>,
    <<8498, 8498, 1, 8526>>, <<8544, 8559, 1, 8560>>, <<8579, 8579, 1, 8580>>,
    <<9398, 9423, 1, 9424>>, <<11264, 11311, 1, 11312>>,
    <<11360, 11360, 1, 11361>>, <<11362, 11362, 1, 619>>,
    <<11363, 11363, 1, 7549>>, <<11364, 11364, 1, 637>>,
    <<11367, 11371, 2, 11368>>, <<11373, 11373, 1, 593>>,
    <<11374, 11374, 1, 625>>, <<11375, 11375, 1, 592>>,
    <<11376, 11376, 1, 594>>, <<11378, 11378, 1, 11379>>,
    <<11381, 11381, 1, 11382>>, <<11390, 11391, 1, 575>>,
    <<11392, 11490, 2, 11393>>, <<11499, 11501, 2, 11500>>,
    <<11506, 11506, 1, 11507>>, <<42560, 42604, 2, 42561>>,
    <<42624, 42650, 2, 42625>>, <<42786, 42798, 2, 42787>>,
    <<42802, 42862, 2, 42803>>, <<42873, 42875, 2, 42874>>,
    <<42877, 42877, 1, 7545>>, <<42878, 42886, 2, 42879>>,
    <<42891, 42891, 1, 42892>>, <<42893, 42893, 1, 613>>,
    <<42896, 42898, 2, 42897>>, <<42902, 42920, 2, 42903>>,
    <<42922, 42922, 1, 614>>, <<42923, 42923, 1, 604>>,
    <<42924, 42924, 1, 609>>, <<42925, 42925, 1, 620>>,
    <<42926, 42926, 1, 618>>, <<42928, 42928, 1, 670>>,
    <<42929, 42929, 1, 647>>, <<42930, 42930, 1, 669>>,
    <<42931, 42931, 1, 43859>>, <<42932, 42946, 2, 42933>>,
    <<42948, 42948, 1, 42900>>, <<42949, 42949, 1, 642>>,
    <<42950, 42950, 1, 7566>>, <<42951, 42953, 2, 42952>>,
    <<42955, 42955, 1, 612>>, <<42956, 42970, 2, 42957>>,
    <<42972, 42972, 1, 411>>, <<42997, 42997, 1, 42998>>,
    <<65313, 65338, 1, 65345>>, <<66560, 66599, 1, 66600>>,
    <<66736, 66771, 1, 66776>>, <<66928, 66964, 2, 66967>>,
    <<66929, 66937, 2, 66968>>, <<66941, 66953, 2, 66980>>,
    <<66957, 66961, 2, 66996>>, <<66965, 66965, 1, 67004>>,
    <<68736, 68786, 1, 68800>>, <<68944, 68965, 1, 68976>>,
    <<71840, 71871, 1, 71872>>, <<93760, 93791, 1, 93792>>,
    <<93856, 93880, 1, 93883>>, <<125184, 125217, 1, 125218>>}

\* <<first, last>>: the code points that are cased letters and not
\* case-ignorable.
CasedRanges == {
    <<65, 90>>, <<97, 122>>, <<170, 170>>, <<181, 181>>, <<186, 186>>,
    <<192, 214>>, <<216, 246>>, <<248, 442>>, <<444, 447>>, <<452, 659>>,
    <<662, 687>>, <<880, 883>>, <<886, 887>>, <<891, 893>>, <<895, 895>>,
    <<902, 902>>, <<904, 906>>, <<908, 908>>, <<910, 929>>, <<931, 1013>>,
    <<1015, 1153>>, <<1162, 1327>>, <<1329, 1366>>, <<1376, 1416>>,
    <<4256, 4293>>, <<4295, 4295>>, <<4301, 4301>>, <<4304, 4346>>,
    <<4349, 4351>>, <<5024, 5109>>, <<5112, 5117>>, <<7296, 7306>>,
    <<7312, 7354>>, <<7357, 7359>>, <<7424, 7467>>, <<7531, 7543>>,
    <<7545, 7578>>, <<7680, 7957>>, <<7960, 7965>>, <<7968, 8005>>,
    <<8008, 8013>>, <<8016, 8023>>, <<8025, 8025>>, <<8027, 8027>>,
    <<8029, 8029>>, <<8031, 8061>>, <<8064, 8116>>, <<8118, 8124>>,
    <<8126, 8126>>, <<8130, 8132>>, <<8134, 8140>>, <<8144, 8147>>,
    <<8150, 8155>>, <<8160, 8172>>, <<8178, 8180>>, <<8182, 8188>>,
    <<8450, 8450>>, <<8455, 8455>>, <<8458, 8467>>, <<8469, 8469>>,
    <<8473, 8477>>, <<8484, 8484>>, <<8486, 8486>>, <<8488, 8488>>,
    <<8490, 8493>>, <<8495, 8500>>, <<8505, 8505>>, <<8508, 8511>>,
    <<8517, 8521>>, <<8526, 8526>>, <<8544, 8575>>, <<8579, 8580>>,
    <<9398, 9449>>, <<11264, 11387>>, <<11390, 11492>>, <<11499, 11502>>,
    <<11506, 11507>>, <<11520, 11557>>, <<11559, 11559>>, <<11565, 11565>>,
    <<42560, 42605>>, <<42624, 42651>>, <<42786, 42863>>, <<42865, 42887>>,
    <<42891, 42894>>, <<42896, 42972>>, <<42997, 42998>>, <<43002, 43002>>,
    <<43824, 43866>>, <<43872, 43880>>, <<43888, 43967>>, <<64256, 64262>>,
    <<64275, 64279>>, <<65313, 65338>>, <<65345, 65370>>, <<66560, 66639>>,
    <<66736, 66771>>, <<66776, 66811>>, <<66928, 66938>>, <<66940, 66954>>,
    <<66956, 66962>>, <<66964, 66965>>, <<66967, 66977>>, <<66979, 66993>>,
    <<66995, 67001>>, <<67003, 67004>>, <<68736, 68786>>, <<68800, 68850>>,
    <<68944, 68965>>, <<68976, 68997>>, <<71840, 71903>>, <<93760, 93823>>,
    <<93856, 93880>>, <<93883, 93907>>, <<119808, 119892>>,
    <<119894, 119964>>, <<119966, 119967>>, <<119970, 119970>>,
    <<119973, 119974>>, <<119977, 119980>>, <<119982, 119993>>,
    <<119995, 119995>>, <<119997, 120003>>, <<120005, 120069>>,
    <<120071, 120074>>, <<120077, 120084>>, <<120086, 120092>>,
    <<120094, 120121>>, <<120123, 120126>>, <<120128, 120132>>,
    <<120134, 120134>>, <<120138, 120144>>, <<120146, 120485>>,
    <<120488, 120512>>, <<120514, 120538>>, <<120540, 120570>>,
    <<120572, 120596>>, <<120598, 120628>>, <<120630, 120654>>,
    <<120656, 120686>>, <<120688, 120712>>, <<120714, 120744>>,
    <<120746, 120770>>, <<120772, 120779>>, <<122624, 122633>>,
    <<122635, 122654>>, <<122661, 122666>>, <<125184, 125251>>,
    <<127280, 127305>>, <<127312, 127337>>, <<127344, 127369>>}

\* <<first, last>>: the case-ignorable code points.
IgnorableRanges == {
    <<39, 39>>, <<46, 46>>, <<58, 58>>, <<94, 94>>, <<96, 96>>, <<168, 168>>,
    <<173, 173>>, <<175, 175>>, <<180, 180>>, <<183, 184>>, <<688, 879>>,
    <<884, 885>>, <<890, 890>>, <<900, 901>>, <<903, 903>>, <<1155, 1161>>,
    <<1369, 1369>>, <<1375, 1375>>, <<1425, 1469>>, <<1471, 1471>>,
    <<1473, 1474>>, <<1476, 1477>>, <<1479, 1479>>, <<1524, 1524>>,
    <<1536, 1541>>, <<1552, 1562>>, <<1564, 1564>>, <<1600, 1600>>,
    <<1611, 1631>>, <<1648, 1648>>, <<1750, 1757>>, <<1759, 1768>>,
    <<1770, 1773>>, <<1807, 1807>>, <<1809, 1809>>, <<1840, 1866>>,
    <<1958, 1968>>, <<2027, 2037>>, <<2042, 2042>>, <<2045, 2045>>,
    <<2070, 2093>>, <<2137, 2139>>, <<2184, 2184>>, <<2192, 2193>>,
    <<2199, 2207>>, <<2249, 2306>>, <<2362, 2362>>, <<2364, 2364>>,
    <<2369, 2376>>, <<2381, 2381>>, <<2385, 2391>>, <<2402, 2403>>,
    <<2417, 2417>>, <<2433, 2433>>, <<2492, 2492>>, <<2497, 2500>>,
    <<2509, 2509>>, <<2530, 2531>>, <<2558, 2558>>, <<2561, 2562>>,
    <<2620, 2620>>, <<2625, 2626>>, <<2631, 2632>>, <<2635, 2637>>,
    <<2641, 2641>>, <<2672, 2673>>, <<2677, 2677>>, <<2689, 2690>>,
    <<2748, 2748>>, <<2753, 2757>>, <<2759, 2760>>, <<2765, 2765>>,
    <<2786, 2787>>, <<2810, 2815>>, <<2817, 2817>>, <<2876, 2876>>,
    <<2879, 2879>>, <<2881, 2884>>, <<2893, 2893>>, <<2901, 2902>>,
    <<2914, 2915>>, <<2946, 2946>>, <<3008, 3008>>, <<3021, 3021>>,
    <<3072, 3072>>, <<3076, 3076>>, <<3132, 3132>>, <<3134, 3136>>,
    <<3142, 3144>>, <<3146, 3149>>, <<3157, 3158>>, <<3170, 3171>>,
    <<3201, 3201>>, <<3260, 3260>>, <<3263, 3263>>, <<3270, 3270>>,
    <<3276, 3277>>, <<3298, 3299>>, <<3328, 3329>>, <<3387, 3388>>,
    <<3393, 3396>>, <<3405, 3405>>, <<3426, 3427>>, <<3457, 3457>>,
    <<3530, 3530>>, <<3538, 3540>>, <<3542, 3542>>, <<3633, 3633>>,
    <<3636, 3642>>, <<3654, 3662>>, <<3761, 3761>>, <<3764, 3772>>,
    <<3782, 3782>>, <<3784, 3790>>, <<3864, 3865>>, <<3893, 3893>>,
    <<3895, 3895>>, <<3897, 3897>>, <<3953, 3966>>, <<3968, 3972>>,
    <<3974, 3975>>, <<3981, 3991>>, <<3993, 4028>>, <<4038, 4038>>,
    <<4141, 4144>>, <<4146, 4151>>, <<4153, 4154>>, <<4157, 4158>>,
    <<4184, 4185>>, <<4190, 4192>>, <<4209, 4212>>, <<4226, 4226>>,
    <<4229, 4230>>, <<4237, 4237>>, <<4253, 4253>>, <<4348, 4348>>,
    <<4957, 4959>>, <<5906, 5908>>, <<5938, 5939>>, <<5970, 5971>>,
    <<6002, 6003>>, <<6068, 6069>>, <<6071, 6077>>, <<6086, 6086>>,
    <<6089, 6099>>, <<6103, 6103>>, <<6109, 6109>>, <<6155, 6159>>,
    <<6211, 6211>>, <<6277, 6278>>, <<6313, 6313>>, <<6432, 6434>>,
    <<6439, 6440>>, <<6450, 6450>>, <<6457, 6459>>, <<6679, 6680>>,
    <<6683, 6683>>, <<6742, 6742>>, <<6744, 6750>>, <<6752, 6752>>,
    <<6754, 6754>>, <<6757, 6764>>, <<6771, 6780>>, <<6783, 6783>>,
    <<6823, 6823>>, <<6832, 6877>>, <<6880, 6891>>, <<6912, 6915>>,
    <<6964, 6964>>, <<6966, 6970>>, <<6972, 6972>>, <<6978, 6978>>,
    <<7019, 7027>>, <<7040, 7041>>, <<7074, 7077>>, <<7080, 7081>>,
    <<7083, 7085>>, <<7142, 7142>>, <<7144, 7145>>, <<7149, 7149>>,
    <<7151, 7153>>, <<7212, 7219>>, <<7222, 7223>>, <<7288, 7293>>,
    <<7376, 7378>>, <<7380, 7392>>, <<7394, 7400>>, <<7405, 7405>>,
    <<7412, 7412>>, <<7416, 7417>>, <<7468, 7530>>, <<7544, 7544>>,
    <<7579, 7679>>, <<8125, 8125>>, <<8127, 8129>>, <<8141, 8143>>,
    <<8157, 8159>>, <<8173, 8175>>, <<8189, 8190>>, <<8203, 8207>>,
    <<8216, 8217>>, <<8228, 8228>>, <<8231, 8231>>, <<8234, 8238>>,
    <<8288, 8292>>, <<8294, 8303>>, <<8305, 8305>>, <<8319, 8319>>,
    <<8336, 8348>>, <<8400, 8432>>, <<11388, 11389>>, <<11503, 11505>>,
    <<11631, 11631>>, <<11647, 11647>>, <<11744, 11775>>, <<11823, 11823>>,
    <<12293, 12293>>, <<12330, 12333>>, <<12337, 12341>>, <<12347, 12347>>,
    <<12441, 12446>>, <<12540, 12542>>, <<40981, 40981>>, <<42232, 42237>>,
    <<42508, 42508>>, <<42607, 42610>>, <<42612, 42621>>, <<42623, 42623>>,
    <<42652, 42655>>, <<42736, 42737>>, <<42752, 42785>>, <<42864, 42864>>,
    <<42888, 42890>>, <<42993, 42996>>, <<43000, 43001>>, <<43010, 43010>>,
    <<43014, 43014>>, <<43019, 43019>>, <<43045, 43046>>, <<43052, 43052>>,
    <<43204, 43205>>, <<43232, 43249>>, <<43263, 43263>>, <<43302, 43309>>,
    <<43335, 43345>>, <<43392, 43394>>, <<43443, 43443>>, <<43446, 43449>>,
    <<43452, 43453>>, <<43471, 43471>>, <<43493, 43494>>, <<43561, 43566>>,
    <<43569, 43570>>, <<43573, 43574>>, <<43587, 43587>>, <<43596, 43596>>,
    <<43632, 43632>>, <<43644, 43644>>, <<43696, 43696>>, <<43698, 43700>>,
    <<43703, 43704>>, <<43710, 43711>>, <<43713, 43713>>, <<43741, 43741>>,
    <<43756, 43757>>, <<43763, 43764>>, <<43766, 43766>>, <<43867, 43871>>,
    <<43881, 43883>>, <<44005, 44005>>, <<44008, 44008>>, <<44013, 44013>>,
    <<64286, 64286>>, <<64434, 64450>>, <<65024, 65039>>, <<65043, 65043>>,
    <<65056, 65071>>, <<65106, 65106>>, <<65109, 65109>>, <<65279, 65279>>,
    <<65287, 65287>>, <<65294, 65294>>, <<65306, 65306>>, <<65342, 65342>>,
    <<65344, 65344>>, <<65392, 65392>>, <<65438, 65439>>, <<65507, 65507>>,
    <<65529, 65531>>, <<66045, 66045>>, <<66272, 66272>>, <<66422, 66426>>,
    <<67456, 67461>>, <<67463, 67504>>, <<67506, 67514>>, <<68097, 68099>>,
    <<68101, 68102>>, <<68108, 68111>>, <<68152, 68154>>, <<68159, 68159>>,
    <<68325, 68326>>, <<68900, 68903>>, <<68942, 68942>>, <<68969, 68973>>,
    <<68975, 68975>>, <<69291, 69292>>, <<69317, 69317>>, <<69370, 69375>>,
    <<69446, 69456>>, <<69506, 69509>>, <<69633, 69633>>, <<69688, 69702>>,
    <<69744, 69744>>, <<69747, 69748>>, <<69759, 69761>>, <<69811, 69814>>,
    <<69817, 69818>>, <<69821, 69821>>, <<69826, 69826>>, <<69837, 69837>>,
    <<69888, 69890>>, <<69927, 69931>>, <<69933, 69940>>, <<70003, 70003>>,
    <<70016, 70017>>, <<70070, 70078>>, <<70089, 70092>>, <<70095, 70095>>,
    <<70191, 70193>>, <<70196, 70196>>, <<70198, 70199>>, <<70206, 70206>>,
    <<70209, 70209>>, <<70367, 70367>>, <<70371, 70378>>, <<70400, 70401>>,
    <<70459, 70460>>, <<70464, 70464>>, <<70502, 70508>>, <<70512, 70516>>,
    <<70587, 70592>>, <<70606, 70606>>, <<70608, 70608>>, <<70610, 70610>>,
    <<70625, 70626>>, <<70712, 70719>>, <<70722, 70724>>, <<70726, 70726>>,
    <<70750, 70750>>, <<70835, 70840>>, <<70842, 70842>>, <<70847, 70848>>,
    <<70850, 70851>>, <<71090, 71093>>, <<71100, 71101>>, <<71103, 71104>>,
    <<71132, 71133>>, <<71219, 71226>>, <<71229, 71229>>, <<71231, 71232>>,
    <<71339, 71339>>, <<71341, 71341>>, <<71344, 71349>>, <<71351, 71351>>,
    <<71453, 71453>>, <<71455, 71455>>, <<71458, 71461>>, <<71463, 71467>>,
    <<71727, 71735>>, <<71737, 71738>>, <<71995, 71996>>, <<71998, 71998>>,
    <<72003, 72003>>, <<72148, 72151>>, <<72154, 72155>>, <<72160, 72160>>,
    <<72193, 72202>>, <<72243, 72248>>, <<72251, 72254>>, <<72263, 72263>>,
    <<72273, 72278>>, <<72281, 72283>>, <<72330, 72342>>, <<72344, 72345>>,
    <<72544, 72544>>, <<72546, 72548>>, <<72550, 72550>>, <<72752, 72758>>,
    <<72760, 72765>>, <<72767, 72767>>, <<72850, 72871>>, <<72874, 72880>>,
    <<72882, 72883>>, <<72885, 72886>>, <<73009, 73014>>, <<73018, 73018>>,
    <<73020, 73021>>, <<73023, 73029>>, <<73031, 73031>>, <<73104, 73105>>,
    <<73109, 73109>>, <<73111, 73111>>, <<73177, 73177>>, <<73459, 73460>>,
    <<73472, 73473>>, <<73526, 73530>>, <<73536, 73536>>, <<73538, 73538>>,
    <<73562, 73562>>, <<78896, 78912>>, <<78919, 78933>>, <<90398, 90409>>,
    <<90413, 90415>>, <<92912, 92916>>, <<92976, 92982>>, <<92992, 92995>>,
    <<93504, 93506>>, <<93547, 93548>>, <<94031, 94031>>, <<94095, 94111>>,
    <<94176, 94177>>, <<94179, 94180>>, <<94194, 94195>>, <<110576, 110579>>,
    <<110581, 110587>>, <<110589, 110590>>, <<113821, 113822>>,
    <<113824, 113827>>, <<118528, 118573>>, <<118576, 118598>>,
    <<119143, 119145>>, <<119155, 119170>>, <<119173, 119179>>,
    <<119210, 119213>>, <<119362, 119364>>, <<121344, 121398>>,
    <<121403, 121452>>, <<121461, 121461>>, <<121476, 121476>>,
    <<121499, 121503>>, <<121505, 121519>>, <<122880, 122886>>,
    <<122888, 122904>>, <<122907, 122913>>, <<122915, 122916>>,
    <<122918, 122922>>, <<122928, 122989>>, <<123023, 123023>>,
    <<123184, 123197>>, <<123566, 123566>>, <<123628, 123631>>,
    <<124139, 124143>>, <<124398, 124399>>, <<124643, 124643>>,
    <<124646, 124646>>, <<124654, 124655>>, <<124661, 124661>>,
    <<124671, 124671>>, <<125136, 125142>>, <<125252, 125259>>,
    <<127995, 127999>>, <<917505, 917505>>, <<917536, 917631>>,
    <<917760, 917999>>}

\* A surrogate pair starts at position i of s: a code unit of D800-DBFF and
\* one of DC00-DFFF.
PairAt(s, i) ==
    i >= 1 /\ i < Len(s) /\ s[i] \in 55296..56319 /\ s[i + 1] \in 56320..57343

\* The code point of the pair that starts at position i of s.
PairCodePoint(s, i) == 65536 + (s[i] - 55296) * 1024 + (s[i + 1] - 56320)

\* The code units of a code point.
CodeUnits(cp) ==
    IF cp < 65536 THEN <<cp>>
    ELSE <<55296 + ((cp - 65536) \div 1024), 56320 + ((cp - 65536) % 1024)>>

InRange(cp, rg) == rg[1] <= cp /\ cp <= rg[2]

\* The lower-case form of a code point that has one (every code point but
\* U+0130, and U+03A3 where the place decides).
LowerCodePoint(cp) ==
    IF cp < 128 THEN (IF cp \in 65..90 THEN cp + 32 ELSE cp)
    ELSE IF \E rg \in LowerRanges : InRange(cp, rg) /\ (cp - rg[1]) % rg[3] = 0
    THEN LET rg == CHOOSE rg \in LowerRanges : InRange(cp, rg) /\ (cp - rg[1]) % rg[3] = 0
         IN rg[4] + (cp - rg[1])
    ELSE cp

Cased(cp) == \E rg \in CasedRanges : InRange(cp, rg)
CaseIgnorable(cp) == \E rg \in IgnorableRanges : InRange(cp, rg)

\* The condition Final_Sigma, before: going back from position j of s over
\* the case-ignorable code points, a cased letter is found.
RECURSIVE CasedBefore(_, _)
CasedBefore(s, j) ==
    IF j < 1 THEN FALSE
    ELSE LET pair == PairAt(s, j - 1)
             cp == IF pair THEN PairCodePoint(s, j - 1) ELSE s[j]
         IN IF CaseIgnorable(cp)
            THEN CasedBefore(s, IF pair THEN j - 2 ELSE j - 1)
            ELSE Cased(cp)

\* The condition Final_Sigma, after: going on from position j of s over the
\* case-ignorable code points, a cased letter is found.
RECURSIVE CasedAfter(_, _)
CasedAfter(s, j) ==
    IF j > Len(s) THEN FALSE
    ELSE LET pair == PairAt(s, j)
             cp == IF pair THEN PairCodePoint(s, j) ELSE s[j]
         IN IF CaseIgnorable(cp)
            THEN CasedAfter(s, IF pair THEN j + 2 ELSE j + 1)
            ELSE Cased(cp)

\* The lower-case form of the code point at position i of s: U+03A3 becomes
\* U+03C2 at the end of a word and U+03C3 elsewhere, U+0130 becomes two code
\* points.
LowerAt(s, i) ==
    LET cp == IF PairAt(s, i) THEN PairCodePoint(s, i) ELSE s[i]
    IN IF cp = 931
       THEN (IF CasedBefore(s, i - 1) /\ ~CasedAfter(s, i + 1) THEN <<962>> ELSE <<963>>)
       ELSE IF cp = 304 THEN <<105, 775>>
       ELSE CodeUnits(LowerCodePoint(cp))

RECURSIVE LowerFrom(_, _)
LowerFrom(s, i) ==
    IF i > Len(s) THEN <<>>
    ELSE LowerAt(s, i) \o LowerFrom(s, IF PairAt(s, i) THEN i + 2 ELSE i + 1)

\* String.prototype.toLowerCase.  A string of code units below U+0080 holds
\* no pair, no U+03A3 and no U+0130: each code unit has its own lower case.
toLowerCase(s) ==
    IF \A i \in 1..Len(s) : s[i] < 128
    THEN [i \in 1..Len(s) |-> LowerCodePoint(s[i])]
    ELSE LowerFrom(s, 1)

\* Canonicalize of a regular expression with the i flag and no u flag, as
\* far as a pattern of the letters a-z can tell: a code unit and a letter of
\* the pattern match when their capitals are the same code unit, and no code
\* unit from U+0080 on has a capital below U+0080.
IgnoreCase(s) == [i \in 1..Len(s) |-> IF s[i] \in 65..90 THEN s[i] + 32 ELSE s[i]]

\* String.prototype.trim: the string without its leading and trailing
\* white space.
trim(s) ==
    LET keep == {i \in 1..Len(s) : s[i] \notin WhiteSpace}
    IN IF keep = {} THEN <<>>
       ELSE LET lo == CHOOSE i \in keep : \A j \in keep : i <= j
                hi == CHOOSE i \in keep : \A j \in keep : j <= i
            IN SubSeq(s, lo, hi)

\* The string w stands in s at position i.
At(s, w, i) ==
    /\ i >= 1
    /\ i + Len(w) - 1 <= Len(s)
    /\ \A j \in 1..Len(w) : s[i + j - 1] = w[j]

\* String.prototype.includes.
includes(s, w) == \E i \in 1..(Len(s) + 1) : At(s, w, i)

\* \b at the gap before position i of s (i in 1..Len(s)+1): exactly one of
\* the two neighbours is a word character.
Boundary(s, i) ==
    LET before == i > 1 /\ s[i - 1] \in WordChars
        after == i <= Len(s) /\ s[i] \in WordChars
    IN before # after

\* /\bw\b/.test(s) for a literal w.
MatchesWord(s, w) ==
    \E i \in 1..(Len(s) + 1) :
        At(s, w, i) /\ Boundary(s, i) /\ Boundary(s, i + Len(w))

\* The position after the longest run of white space of s starting at i.
SkipSpace(s, i) ==
    IF \E k \in i..Len(s) : s[k] \notin WhiteSpace
    THEN CHOOSE k \in i..Len(s) :
            s[k] \notin WhiteSpace /\ \A j \in i..(k - 1) : s[j] \in WhiteSpace
    ELSE Len(s) + 1

\* Where the phrase ws (literal words, each pair separated by \s+ when
\* min = 1 and by \s* when min = 0) ends when it starts at position i of s,
\* and 0 when it does not start there.  Every word starts with a character
\* that is no white space, so \s+ and \s* take the whole run.
RECURSIVE PhraseEnd(_, _, _, _)
PhraseEnd(s, ws, i, min) ==
    IF ~At(s, ws[1], i) THEN 0
    ELSE IF Len(ws) = 1 THEN i + Len(ws[1])
    ELSE LET k == SkipSpace(s, i + Len(ws[1]))
         IN IF k - (i + Len(ws[1])) < min THEN 0
            ELSE PhraseEnd(s, Tail(ws), k, min)

\* /\bw1\s+w2\b/.test(s) and /\bw1\s*w2\s*w3\b/.test(s).
MatchesPhrase(s, ws, min) ==
    \E i \in 1..(Len(s) + 1) :
        /\ Boundary(s, i)
        /\ LET e == PhraseEnd(s, ws, i, min)
           IN e > 0 /\ Boundary(s, e)

(***************************************************************************)
(* The fixed texts of the four servers.                                    *)
(***************************************************************************)
\* "Ask a Vermont forestry question."
AskPrompt == <<65, 115, 107, 32, 97, 32, 86, 101, 114, 109, 111, 110,
      116, 32, 102, 111, 114, 101, 115, 116, 114, 121, 32, 113, 117, 101,
      115, 116, 105, 111, 110, 46>>

\* A faulty outOfScope, for the sensitivity of C12: the refusal is worded
\* differently.
\* "Your request is outside the scope of this app."
outOfScopeReworded == <<89, 111, 117, 114, 32, 114, 101, 113, 117, 101,
      115, 116, 32, 105, 115, 32, 111, 117, 116, 115, 105, 100, 101, 32, 116,
      104, 101, 32, 115, 99, 111, 112, 101, 32, 111, 102, 32, 116, 104, 105,
      115, 32, 97, 112, 112, 46>>

\* outOfScope() of "kw" and "ret", REFUSAL of "esm".
\* "Your request is beyond the scope and purpose of this app."
outOfScope == <<89, 111, 117, 114, 32, 114, 101, 113, 117, 101, 115, 116,
      32, 105, 115, 32, 98, 101, 121, 111, 110, 100, 32, 116, 104, 101, 32,
      115, 99, 111, 112, 101, 32, 97, 110, 100, 32, 112, 117, 114, 112, 111,
      115, 101, 32, 111, 102, 32, 116, 104, 105, 115, 32, 97, 112, 112, 46>>

\* soilsRedirect() of "kw" and "ret".
soilsRedirect ==
    \* For soils questions, use the official soil map tool (Web Soil Survey) for your specific location.
    <<70, 111, 114, 32, 115, 111, 105, 108, 115, 32, 113, 117, 101, 115, 116,
      105, 111, 110, 115, 44, 32, 117, 115, 101, 32, 116, 104, 101, 32, 111,
      102, 102, 105, 99, 105, 97, 108, 32, 115, 111, 105, 108, 32, 109, 97,
      112, 32, 116, 111, 111, 108, 32, 40, 87, 101, 98, 32, 83, 111, 105,
      108, 32, 83, 117, 114, 118, 101, 121, 41, 32, 102, 111, 114, 32, 121,
      111, 117, 114, 32, 115, 112, 101, 99, 105, 102, 105, 99, 32, 108, 111,
      99, 97, 116, 105, 111, 110, 46>>

\* The developer-contact answer of "kw" and "ret", DEVELOPER_LINE of "esm".
DEVELOPER_LINE ==
    \* Please contact the developer with your questions or feedback (steve@northeastforests.com).
    <<80, 108, 101, 97, 115, 101, 32, 99, 111, 110, 116, 97, 99, 116, 32,
      116, 104, 101, 32, 100, 101, 118, 101, 108, 111, 112, 101, 114, 32,
      119, 105, 116, 104, 32, 121, 111, 117, 114, 32, 113, 117, 101, 115,
      116, 105, 111, 110, 115, 32, 111, 114, 32, 102, 101, 101, 100, 98, 97,
      99, 107, 32, 40, 115, 116, 101, 118, 101, 64, 110, 111, 114, 116, 104,
      101, 97, 115, 116, 102, 111, 114, 101, 115, 116, 115, 46, 99, 111, 109,
      41, 46>>

SOIL_TOOL_LINE ==
    \* For soils in Vermont, use the official soil map tool: https://casoilresource.lawr.ucdavis.edu/gmap/.
    <<70, 111, 114, 32, 115, 111, 105, 108, 115, 32, 105, 110, 32, 86, 101,
      114, 109, 111, 110, 116, 44, 32, 117, 115, 101, 32, 116, 104, 101, 32,
      111, 102, 102, 105, 99, 105, 97, 108, 32, 115, 111, 105, 108, 32, 109,
      97, 112, 32, 116, 111, 111, 108, 58, 32, 104, 116, 116, 112, 115, 58,
      47, 47, 99, 97, 115, 111, 105, 108, 114, 101, 115, 111, 117, 114, 99,
      101, 46, 108, 97, 119, 114, 46, 117, 99, 100, 97, 118, 105, 115, 46,
      101, 100, 117, 47, 103, 109, 97, 112, 47, 46>>

\* "steve@northeastforests.com"
DeveloperEmail == <<115, 116, 101, 118, 101, 64, 110, 111, 114, 116, 104,
      101, 97, 115, 116, 102, 111, 114, 101, 115, 116, 115, 46, 99, 111, 109>>

\* "Contact the developer at steve@northeastforests.com."
AsstDeveloperAnswer == <<67, 111, 110, 116, 97, 99, 116, 32, 116, 104,
      101, 32, 100, 101, 118, 101, 108, 111, 112, 101, 114, 32, 97, 116, 32,
      115, 116, 101, 118, 101, 64, 110, 111, 114, 116, 104, 101, 97, 115,
      116, 102, 111, 114, 101, 115, 116, 115, 46, 99, 111, 109, 46>>

\* "For soils, use the official Web Soil Survey tool."
AsstSoilsAnswer == <<70, 111, 114, 32, 115, 111, 105, 108, 115, 44, 32,
      117, 115, 101, 32, 116, 104, 101, 32, 111, 102, 102, 105, 99, 105, 97,
      108, 32, 87, 101, 98, 32, 83, 111, 105, 108, 32, 83, 117, 114, 118,
      101, 121, 32, 116, 111, 111, 108, 46>>

\* "No answer returned."
NoAnswerReturned == <<78, 111, 32, 97, 110, 115, 119, 101, 114, 32, 114,
      101, 116, 117, 114, 110, 101, 100, 46>>

MissingApiKey ==
    \* Server is missing OPENAI_API_KEY. Set it in Koyeb environment variables.
    <<83, 101, 114, 118, 101, 114, 32, 105, 115, 32, 109, 105, 115, 115, 105,
      110, 103, 32, 79, 80, 69, 78, 65, 73, 95, 65, 80, 73, 95, 75, 69, 89,
      46, 32, 83, 101, 116, 32, 105, 116, 32, 105, 110, 32, 75, 111, 121,
      101, 98, 32, 101, 110, 118, 105, 114, 111, 110, 109, 101, 110, 116, 32,
      118, 97, 114, 105, 97, 98, 108, 101, 115, 46>>

MissingVectorStore ==
    \* Server is missing VECTOR_STORE_ID. Set it in Koyeb environment variables.
    <<83, 101, 114, 118, 101, 114, 32, 105, 115, 32, 109, 105, 115, 115, 105,
      110, 103, 32, 86, 69, 67, 84, 79, 82, 95, 83, 84, 79, 82, 69, 95, 73,
      68, 46, 32, 83, 101, 116, 32, 105, 116, 32, 105, 110, 32, 75, 111, 121,
      101, 98, 32, 101, 110, 118, 105, 114, 111, 110, 109, 101, 110, 116, 32,
      118, 97, 114, 105, 97, 98, 108, 101, 115, 46>>

\* "Missing API Key, Vector Store ID, or Assistant ID in Koyeb."
AsstMissingConfig == <<77, 105, 115, 115, 105, 110, 103, 32, 65, 80, 73,
      32, 75, 101, 121, 44, 32, 86, 101, 99, 116, 111, 114, 32, 83, 116, 111,
      114, 101, 32, 73, 68, 44, 32, 111, 114, 32, 65, 115, 115, 105, 115,
      116, 97, 110, 116, 32, 73, 68, 32, 105, 110, 32, 75, 111, 121, 101, 98,
      46>>

\* "Missing message (string) in JSON body."
EsmMissingMessage == <<77, 105, 115, 115, 105, 110, 103, 32, 109, 101,
      115, 115, 97, 103, 101, 32, 40, 115, 116, 114, 105, 110, 103, 41, 32,
      105, 110, 32, 74, 83, 79, 78, 32, 98, 111, 100, 121, 46>>

\* "Run status: "
RunStatusPrefix == <<82, 117, 110, 32, 115, 116, 97, 116, 117, 115, 58,
      32>>

(***************************************************************************)
(* The word lists of the intent detectors and of the scope gate.           *)
(***************************************************************************)
\* asksAuthorshipOrFeedback of "kw".
KwAuthorshipWords == {
    <<119, 104, 111, 32, 119, 114, 111, 116, 101>>,         \* who wrote
    <<119, 104, 111, 32, 109, 97, 100, 101>>,               \* who made
    <<119, 104, 111, 32, 98, 117, 105, 108, 116>>,          \* who built
    <<119, 104, 111, 32, 99, 114, 101, 97, 116, 101, 100>>, \* who created
    <<102, 101, 101, 100, 98, 97, 99, 107>>,                \* feedback
    <<115, 117, 103, 103, 101, 115, 116, 105, 111, 110>>,   \* suggestion
    \* feature request
    <<102, 101, 97, 116, 117, 114, 101, 32, 114, 101, 113, 117, 101, 115,
      116>>,
    <<99, 111, 110, 116, 97, 99, 116>>,                     \* contact
    <<101, 109, 97, 105, 108>>,                             \* email
    <<100, 101, 118, 101, 108, 111, 112, 101, 114>>}        \* developer

\* asksAuthorshipOrFeedback of "ret".
RetAuthorshipWords == {
    <<119, 104, 111, 32, 119, 114, 111, 116, 101>>,         \* who wrote
    <<119, 104, 111, 32, 109, 97, 100, 101>>,               \* who made
    <<119, 104, 111, 32, 98, 117, 105, 108, 116>>,          \* who built
    <<102, 101, 101, 100, 98, 97, 99, 107>>,                \* feedback
    <<115, 117, 103, 103, 101, 115, 116, 105, 111, 110>>,   \* suggestion
    \* feature request
    <<102, 101, 97, 116, 117, 114, 101, 32, 114, 101, 113, 117, 101, 115,
      116>>,
    <<99, 111, 110, 116, 97, 99, 116>>,                     \* contact
    <<101, 109, 97, 105, 108>>,                             \* email
    <<100, 101, 118, 101, 108, 111, 112, 101, 114>>}        \* developer

\* asksAuthorshipOrFeedback of "asst".
\* "who wrote", "who made", "feedback", "contact"
AsstAuthorshipWords == {<<119, 104, 111, 32, 119, 114, 111, 116, 101>>, <<119, 104, 111, 32, 109, 97, 100,
      101>>, <<102, 101, 101, 100,
      98, 97, 99, 107>>, <<99, 111,
      110, 116, 97, 99, 116>>}

\* The alternatives of developerInfoRequested of "esm", written out.
EsmDeveloperWords == {
    <<102, 101, 101, 100, 98, 97, 99, 107>>,                \* feedback
    <<115, 117, 103, 103, 101, 115, 116, 105, 111, 110>>,   \* suggestion
    \* suggestions
    <<115, 117, 103, 103, 101, 115, 116, 105, 111, 110, 115>>,
    <<119, 104, 111, 32, 109, 97, 100, 101>>,               \* who made
    <<119, 104, 111, 32, 98, 117, 105, 108, 116>>,          \* who built
    <<119, 104, 111, 32, 99, 114, 101, 97, 116, 101, 100>>, \* who created
    <<119, 104, 111, 32, 119, 114, 111, 116, 101>>,         \* who wrote
    <<100, 101, 118, 101, 108, 111, 112, 101, 114>>,        \* developer
    <<109, 97, 105, 110, 116, 97, 105, 110, 101, 114>>,     \* maintainer
    <<99, 111, 110, 116, 97, 99, 116>>,                     \* contact
    <<101, 109, 97, 105, 108>>,                             \* email
    \* how do i send feedback
    <<104, 111, 119, 32, 100, 111, 32, 105, 32, 115, 101, 110, 100, 32, 102,
      101, 101, 100, 98, 97, 99, 107>>,
    \* how do i give feedback
    <<104, 111, 119, 32, 100, 111, 32, 105, 32, 103, 105, 118, 101, 32, 102,
      101, 101, 100, 98, 97, 99, 107>>,
    \* how do i report
    <<104, 111, 119, 32, 100, 111, 32, 105, 32, 114, 101, 112, 111, 114, 116>>,
    <<114, 101, 112, 111, 114, 116, 32, 98, 117, 103>>,     \* report bug
    \* report issue
    <<114, 101, 112, 111, 114, 116, 32, 105, 115, 115, 117, 101>>,
    \* report a bug
    <<114, 101, 112, 111, 114, 116, 32, 97, 32, 98, 117, 103>>,
    \* report a issue
    <<114, 101, 112, 111, 114, 116, 32, 97, 32, 105, 115, 115, 117, 101>>,
    \* make a suggestion
    <<109, 97, 107, 101, 32, 97, 32, 115, 117, 103, 103, 101, 115, 116, 105,
      111, 110>>,
    \* feature request
    <<102, 101, 97, 116, 117, 114, 101, 32, 114, 101, 113, 117, 101, 115,
      116>>}

\* The alternatives of soilAsked of "esm".
EsmSoilWords == {
    <<115, 111, 105, 108>>,                                 \* soil
    <<115, 111, 105, 108, 115>>,                            \* soils
    <<115, 111, 105, 108, 32, 109, 97, 112>>,               \* soil map
    <<115, 111, 105, 108, 32, 116, 121, 112, 101>>,         \* soil type
    \* soil classification
    <<115, 111, 105, 108, 32, 99, 108, 97, 115, 115, 105, 102, 105, 99, 97,
      116, 105, 111, 110>>,
    \* web soil survey
    <<119, 101, 98, 32, 115, 111, 105, 108, 32, 115, 117, 114, 118, 101, 121>>,
    <<110, 114, 99, 115>>}                                  \* nrcs

obviouslyUnrelated == {
    <<114, 101, 99, 105, 112, 101>>,                        \* recipe
    <<100, 97, 116, 105, 110, 103>>,                        \* dating
    <<109, 111, 118, 105, 101>>,                            \* movie
    <<116, 118, 32, 115, 104, 111, 119>>,                   \* tv show
    <<98, 105, 116, 99, 111, 105, 110>>,                    \* bitcoin
    <<115, 116, 111, 99, 107>>,                             \* stock
    \* fantasy football
    <<102, 97, 110, 116, 97, 115, 121, 32, 102, 111, 111, 116, 98, 97, 108,
      108>>,
    <<112, 111, 114, 110>>,                                 \* porn
    <<99, 101, 108, 101, 98, 114, 105, 116, 121>>,          \* celebrity
    <<97, 115, 116, 114, 111, 108, 111, 103, 121>>,         \* astrology
    <<104, 111, 114, 111, 115, 99, 111, 112, 101>>}         \* horoscope

topicSignals == {
    <<97, 109, 112>>,                                       \* amp
    \* acceptable management practice
    <<97, 99, 99, 101, 112, 116, 97, 98, 108, 101, 32, 109, 97, 110, 97, 103,
      101, 109, 101, 110, 116, 32, 112, 114, 97, 99, 116, 105, 99, 101>>,
    <<119, 97, 116, 101, 114, 98, 97, 114>>,                \* waterbar
    <<116, 117, 114, 110, 111, 117, 116>>,                  \* turnout
    \* broad-based dip
    <<98, 114, 111, 97, 100, 45, 98, 97, 115, 101, 100, 32, 100, 105, 112>>,
    \* stream crossing
    <<115, 116, 114, 101, 97, 109, 32, 99, 114, 111, 115, 115, 105, 110, 103>>,
    <<99, 114, 111, 115, 115, 105, 110, 103>>,              \* crossing
    <<99, 117, 108, 118, 101, 114, 116>>,                   \* culvert
    <<98, 114, 105, 100, 103, 101>>,                        \* bridge
    \* portable bridge
    <<112, 111, 114, 116, 97, 98, 108, 101, 32, 98, 114, 105, 100, 103, 101>>,
    <<115, 105, 108, 116, 32, 102, 101, 110, 99, 101>>,     \* silt fence
    <<115, 101, 101, 100>>,                                 \* seed
    <<109, 117, 108, 99, 104>>,                             \* mulch
    \* stabilization
    <<115, 116, 97, 98, 105, 108, 105, 122, 97, 116, 105, 111, 110>>,
    <<101, 114, 111, 115, 105, 111, 110>>,                  \* erosion
    <<115, 101, 100, 105, 109, 101, 110, 116>>,             \* sediment
    <<114, 117, 116>>,                                      \* rut
    <<114, 117, 116, 116, 105, 110, 103>>,                  \* rutting
    <<100, 105, 116, 99, 104>>,                             \* ditch
    <<100, 114, 97, 105, 110, 97, 103, 101>>,               \* drainage
    <<98, 117, 102, 102, 101, 114>>,                        \* buffer
    <<114, 105, 112, 97, 114, 105, 97, 110>>,               \* riparian
    <<119, 101, 116, 108, 97, 110, 100>>,                   \* wetland
    \* silviculture
    <<115, 105, 108, 118, 105, 99, 117, 108, 116, 117, 114, 101>>,
    \* silvicultural
    <<115, 105, 108, 118, 105, 99, 117, 108, 116, 117, 114, 97, 108>>,
    \* regeneration
    <<114, 101, 103, 101, 110, 101, 114, 97, 116, 105, 111, 110>>,
    <<116, 104, 105, 110, 110, 105, 110, 103>>,             \* thinning
    <<99, 108, 101, 97, 114, 99, 117, 116>>,                \* clearcut
    \* shelterwood
    <<115, 104, 101, 108, 116, 101, 114, 119, 111, 111, 100>>,
    <<115, 101, 108, 101, 99, 116, 105, 111, 110>>,         \* selection
    \* group selection
    <<103, 114, 111, 117, 112, 32, 115, 101, 108, 101, 99, 116, 105, 111,
      110>>,
    <<112, 97, 116, 99, 104, 32, 99, 117, 116>>,            \* patch cut
    <<114, 101, 108, 101, 97, 115, 101>>,                   \* release
    <<99, 114, 111, 112, 32, 116, 114, 101, 101>>,          \* crop tree
    <<109, 97, 114, 107, 105, 110, 103>>,                   \* marking
    <<98, 97, 115, 97, 108, 32, 97, 114, 101, 97>>,         \* basal area
    <<116, 112, 97>>,                                       \* tpa
    <<113, 109, 100>>,                                      \* qmd
    \* stand improvement
    <<115, 116, 97, 110, 100, 32, 105, 109, 112, 114, 111, 118, 101, 109,
      101, 110, 116>>,
    <<104, 97, 114, 118, 101, 115, 116>>,                   \* harvest
    <<116, 105, 109, 98, 101, 114>>,                        \* timber
    <<108, 111, 103, 103, 105, 110, 103>>,                  \* logging
    <<115, 107, 105, 100, 32, 116, 114, 97, 105, 108>>,     \* skid trail
    <<108, 97, 110, 100, 105, 110, 103>>,                   \* landing
    <<104, 97, 117, 108, 32, 114, 111, 97, 100>>,           \* haul road
    \* forest road
    <<102, 111, 114, 101, 115, 116, 32, 114, 111, 97, 100>>,
    <<102, 111, 114, 119, 97, 114, 100, 101, 114>>,         \* forwarder
    <<115, 107, 105, 100, 100, 101, 114>>,                  \* skidder
    \* feller-buncher
    <<102, 101, 108, 108, 101, 114, 45, 98, 117, 110, 99, 104, 101, 114>>,
    <<112, 114, 111, 99, 101, 115, 115, 111, 114>>,         \* processor
    <<99, 104, 97, 105, 110, 115, 97, 119>>,                \* chainsaw
    \* climate adaptation
    <<99, 108, 105, 109, 97, 116, 101, 32, 97, 100, 97, 112, 116, 97, 116,
      105, 111, 110>>,
    <<114, 101, 115, 105, 108, 105, 101, 110, 99, 101>>,    \* resilience
    <<105, 110, 118, 97, 115, 105, 118, 101>>,              \* invasive
    \* invasive species
    <<105, 110, 118, 97, 115, 105, 118, 101, 32, 115, 112, 101, 99, 105, 101,
      115>>,
    \* deer browse
    <<100, 101, 101, 114, 32, 98, 114, 111, 119, 115, 101>>,
    <<100, 114, 111, 117, 103, 104, 116>>,                  \* drought
    <<102, 108, 111, 111, 100>>,                            \* flood
    <<105, 99, 101, 32, 115, 116, 111, 114, 109>>,          \* ice storm
    <<119, 105, 110, 100, 116, 104, 114, 111, 119>>,        \* windthrow
    <<98, 108, 111, 119, 100, 111, 119, 110>>,              \* blowdown
    <<115, 97, 119, 109, 105, 108, 108>>,                   \* sawmill
    <<109, 105, 108, 108>>,                                 \* mill
    <<108, 117, 109, 98, 101, 114>>,                        \* lumber
    <<112, 117, 108, 112>>,                                 \* pulp
    <<98, 105, 111, 109, 97, 115, 115>>,                    \* biomass
    <<102, 105, 114, 101, 119, 111, 111, 100>>,             \* firewood
    <<99, 104, 105, 112, 115>>,                             \* chips
    <<112, 101, 108, 108, 101, 116, 115>>,                  \* pellets
    <<108, 111, 103, 32, 109, 97, 114, 107, 101, 116>>,     \* log market
    <<115, 116, 117, 109, 112, 97, 103, 101>>,              \* stumpage
    <<100, 101, 108, 105, 118, 101, 114, 101, 100>>,        \* delivered
    <<115, 99, 97, 108, 101>>,                              \* scale
    <<98, 111, 97, 114, 100, 32, 102, 101, 101, 116>>,      \* board feet
    <<99, 111, 114, 100>>,                                  \* cord
    \* forest action plan
    <<102, 111, 114, 101, 115, 116, 32, 97, 99, 116, 105, 111, 110, 32, 112,
      108, 97, 110>>,
    <<102, 105, 97>>,                                       \* fia
    \* forest inventory
    <<102, 111, 114, 101, 115, 116, 32, 105, 110, 118, 101, 110, 116, 111,
      114, 121>>,
    <<97, 110, 97, 108, 121, 115, 105, 115>>,               \* analysis
    <<116, 114, 101, 101, 32, 111, 119, 110, 101, 114>>,    \* tree owner
    \* tree owner\u2019s manual
    <<116, 114, 101, 101, 32, 111, 119, 110, 101, 114, 8217, 115, 32, 109,
      97, 110, 117, 97, 108>>,
    \* tree owners manual
    <<116, 114, 101, 101, 32, 111, 119, 110, 101, 114, 115, 32, 109, 97, 110,
      117, 97, 108>>}

(***************************************************************************)
(* The intent detectors and the scope gate.                                *)
(***************************************************************************)
\* A faulty MatchesSoil, for the sensitivity of C2: /\bsoil\b/ without the
\* optional s.
\* "soil"
MatchesSoilSingular(m) == MatchesWord(m, <<115, 111, 105, 108>>)

\* /\bsoil(s)?\b/.test(m).
\* "soil", "soils"
MatchesSoil(m) == MatchesWord(m, <<115, 111, 105, 108>>) \/ MatchesWord(m, <<115, 111,
      105, 108, 115>>)

\* isSoilsQuestion of "kw".
isSoilsQuestion(message) ==
    LET m == toLowerCase(message)
    IN \/ MatchesSoil(m)
       \* "drainage"
       \/ includes(m, <<100, 114, 97, 105, 110, 97, 103, 101>>)
       \* "site index"
       \/ includes(m, <<115, 105, 116, 101, 32, 105, 110, 100, 101, 120>>)

\* isSoilsQuestion of "ret" and of "asst" (the same three expressions).
RetIsSoilsQuestion(message) ==
    LET m == toLowerCase(message)
    IN \/ MatchesSoil(m)
       \* "drainage", "class"
       \/ MatchesPhrase(m, <<<<100, 114, 97, 105, 110, 97, 103, 101>>, <<99, 108, 97, 115, 115>>>>, 1)
       \* "web", "soil", "survey"
       \/ MatchesPhrase(m, <<<<119, 101, 98>>, <<115, 111, 105, 108>>, <<115, 117, 114, 118, 101, 121>>>>, 0)

\* m.includes(w) for some w of a word list.
IncludesAny(message, words) ==
    LET m == toLowerCase(message)
    IN \E w \in words : includes(m, w)

\* A faulty asksAuthorshipOrFeedback, for the sensitivity of C11: the message
\* is searched as it was written, not in lower case.
asksAuthorshipOrFeedbackCaseSensitive(message) ==
    \E w \in KwAuthorshipWords : includes(message, w)

\* asksAuthorshipOrFeedback of "kw".
asksAuthorshipOrFeedback(message) == IncludesAny(message, KwAuthorshipWords)

\* asksAuthorshipOrFeedback of "ret".
RetAsksAuthorshipOrFeedback(message) == IncludesAny(message, RetAuthorshipWords)

\* asksAuthorshipOrFeedback of "asst".
AsstAsksAuthorshipOrFeedback(message) == IncludesAny(message, AsstAuthorshipWords)

\* The region test of isInScope: /\bvermont\b/.test(m) || /\bvt\b/.test(m).
NamesVermont(m) == MatchesWord(m, <<118, 101, 114, 109, 111, 110, 116>>) \/ MatchesWord(m, <<118,
      116>>)

\* A faulty isInScope, for the sensitivity of C3: for a message that names
\* the region, an entry of the topic list overrides the unrelated words.
isInScopeTopicOverridesBlocklist(message) ==
    LET m == trim(toLowerCase(message))
    IN IF m = <<>> THEN TRUE
       ELSE IF NamesVermont(m)
            THEN \/ ~ \E w \in obviouslyUnrelated : includes(m, w)
                 \/ \E s \in topicSignals : includes(m, s)
            ELSE \E s \in topicSignals : includes(m, s)

\* isInScope of "kw".
isInScope(message) ==
    LET m == trim(toLowerCase(message))
    IN IF m = <<>> THEN TRUE
       ELSE IF NamesVermont(m)
            THEN ~ \E w \in obviouslyUnrelated : includes(m, w)
            ELSE \E s \in topicSignals : includes(m, s)

\* /\b(w1|w2|...)\b/i.test(message) for literal alternatives in lower case.
MatchesAnyWord(message, words) ==
    LET m == IgnoreCase(message)
    IN \E w \in words : MatchesWord(m, w)

\* developerInfoRequested of "esm".
developerInfoRequested(message) == MatchesAnyWord(message, EsmDeveloperWords)

\* soilAsked of "esm".
soilAsked(message) == MatchesAnyWord(message, EsmSoilWords)

(***************************************************************************)
(* Requests, responses and the results of the external calls.              *)
(***************************************************************************)
\* req.body.message as JSON gives it: absent, a string, or a number.  text is
\* what String(value) returns.
NoMessage == [type |-> "undefined", text |-> <<>>]
StringMessage(s) == [type |-> "string", text |-> s]
NumberMessage(digits) == [type |-> "number", text |-> digits]

\* ToBoolean of req.body.message.
Truthy(v) ==
    \/ v.type = "string" /\ v.text # <<>>
    \/ v.type = "number" /\ v.text # <<48>>

\* const message = (req.body && req.body.message) ? String(req.body.message) : ''
MessageOf(body) == IF Truthy(body.message) THEN body.message.text ELSE <<>>

\* const wantCitations = !!(req.body && req.body.citations), with
\* req.body.citations absent, false or true.
WantCitationsOf(body) == body.citations = "true"

\* res.status(status).json(members): keys names the members of the body (a
\* member whose value is undefined is left out by JSON.stringify); the
\* fields of the members left out hold empty values.
Json(status, keys, success, answer, citations, error) ==
    [status |-> status, keys |-> keys, success |-> success, answer |-> answer,
     citations |-> citations, error |-> error]

\* res.json({ success: true, answer })
Answered(answer) == Json(200, {"success", "answer"}, TRUE, answer, <<>>, <<>>)

\* A faulty AnsweredCited, for the sensitivity of C4: citations is passed on
\* whether asked for or not.
AnsweredAlwaysCited(answer, wantCitations, citations) ==
    Json(200, {"success", "answer", "citations"}, TRUE, answer, citations, <<>>)

\* res.json({ success: true, answer, citations: wantCitations ? citations : undefined })
AnsweredCited(answer, wantCitations, citations) ==
    IF wantCitations
    THEN Json(200, {"success", "answer", "citations"}, TRUE, answer, citations, <<>>)
    ELSE Json(200, {"success", "answer"}, TRUE, answer, <<>>, <<>>)

\* A faulty Failed, for the sensitivity of C10: res.json without
\* res.status(500).
FailedWithoutStatus(error) == Json(200, {"success", "error"}, FALSE, <<>>, <<>>, error)

\* res.status(500).json({ success: false, error })
Failed(error) == Json(500, {"success", "error"}, FALSE, <<>>, <<>>, error)

\* res.json({ answer }) of "esm".
EsmAnswered(answer) == Json(200, {"answer"}, FALSE, answer, <<>>, <<>>)

\* res.status(status).json({ error }) of "esm".
EsmFailed(status, error) == Json(status, {"error"}, FALSE, <<>>, <<>>, error)

\* An Error object an external call rejects with.
Err(message) == [name |-> <<69, 114, 114, 111, 114>>, message |-> message]
NoErr == [name |-> <<>>, message |-> <<>>]

\* Error.prototype.toString.
ErrToString(err) ==
    \* ": "
    IF err.message = <<>> THEN err.name ELSE err.name \o <<58, 32>> \o err.message

\* String(err && err.message ? err.message : err) of "kw" and "ret".
ErrorText(err) == IF err.message # <<>> THEN err.message ELSE ErrToString(err)

\* err?.message || String(err) of "esm".
EsmErrorText(err) == IF err.message # <<>> THEN err.message ELSE ErrToString(err)

\* What an awaited external call ends with: it rejects with err, or resolves
\* to a value with an output (Responses API: the items of response.output;
\* messages.list: the messages of data) and a status (runs.createAndPoll).
Rejected(err) == [threw |-> TRUE, err |-> err, output |-> <<>>, status |-> <<>>]
Resolved(output) == [threw |-> FALSE, err |-> NoErr, output |-> output, status |-> <<>>]
RunEnded(status) == [threw |-> FALSE, err |-> NoErr, output |-> <<>>, status |-> status]

\* An item of response.output and a part of its content.
OutputText(text, annotations) ==
    [type |-> "output_text", text |-> text, annotations |-> annotations]
MessageItem(content) == [type |-> "message", content |-> content]
FileSearchCall == [type |-> "file_search_call", content |-> <<>>]

\* A message of messages.list's data: its first content block is a text
\* block, whose text.value is text.
ThreadMessage(text) ==
    [type |-> "thread.message",
     content |-> <<[type |-> "text", text |-> text, annotations |-> <<>>]>>]

\* The inner loop of the text extraction: the texts of the output_text parts
\* of content, concatenated.
RECURSIVE ContentText(_)
ContentText(content) ==
    IF content = <<>> THEN <<>>
    ELSE (IF content[1].type = "output_text" THEN content[1].text ELSE <<>>)
         \o ContentText(Tail(content))

\* The outer loop: over the items of type message that have content.
RECURSIVE ItemsText(_)
ItemsText(output) ==
    IF output = <<>> THEN <<>>
    ELSE (IF output[1].type = "message" THEN ContentText(output[1].content) ELSE <<>>)
         \o ItemsText(Tail(output))

\* answerText = (answerText || '').trim() || "No answer returned."
AnswerText(output) ==
    LET text == trim(ItemsText(output))
    IN IF text = <<>> THEN NoAnswerReturned ELSE text

\* The citations of "kw": the annotations of the first output_text part of
\* the first message item, or [].
KwCitations(output) ==
    LET msgs == {i \in 1..Len(output) : output[i].type = "message"}
    IN IF msgs = {} THEN <<>>
       ELSE LET first == output[CHOOSE i \in msgs : \A j \in msgs : i <= j].content
                texts == {i \in 1..Len(first) : first[i].type = "output_text"}
            IN IF texts = {} THEN <<>>
               ELSE first[CHOOSE i \in texts : \A j \in texts : i <= j].annotations

\* The citations of "ret": response.output?.[0]?.content?.[0]?.annotations || []
RetCitations(output) ==
    IF output = <<>> THEN <<>>
    ELSE IF output[1].content = <<>> THEN <<>>
    ELSE output[1].content[1].annotations

(***************************************************************************)
(* JSON.parse, and the reading of the relevant member of its result.       *)
(***************************************************************************)
\* "{"relevant": true, "why": "AMP guide"}"
JudgedRelevant == <<123, 34, 114, 101, 108, 101, 118, 97, 110, 116, 34,
      58, 32, 116, 114, 117, 101, 44, 32, 34, 119, 104, 121, 34, 58, 32, 34,
      65, 77, 80, 32, 103, 117, 105, 100, 101, 34, 125>>
\* "{"relevant":false,"why":"no match"}"
JudgedIrrelevant == <<123, 34, 114, 101, 108, 101, 118, 97, 110, 116, 34,
      58, 102, 97, 108, 115, 101, 44, 34, 119, 104, 121, 34, 58, 34, 110,
      111, 32, 109, 97, 116, 99, 104, 34, 125>>
\* "{"relevant":"false","why":"no match"}"
JudgedInWords == <<123, 34, 114, 101, 108, 101, 118, 97, 110, 116, 34,
      58, 34, 102, 97, 108, 115, 101, 34, 44, 34, 119, 104, 121, 34, 58, 34,
      110, 111, 32, 109, 97, 116, 99, 104, 34, 125>>
\* "{"relevant":1}"
JudgedByNumber == <<123, 34, 114, 101, 108, 101, 118, 97, 110, 116, 34,
      58, 49, 125>>
\* "null"
JudgedNull == <<110, 117, 108, 108>>
\* "Not relevant."
JudgedInProse == <<78, 111, 116, 32, 114, 101, 108, 101, 118, 97, 110,
      116, 46>>

\* The code unit at position i of s is one of cs.
Is(s, i, cs) == i >= 1 /\ i <= Len(s) /\ s[i] \in Range(cs)

\* The white space of JSON: space, tab, line feed, carriage return.
\* " \t\n\r"
JsonSpace == <<32, 9, 10, 13>>

\* The first position from i on that holds no JSON white space.
SkipJsonSpace(s, i) ==
    IF i > Len(s) THEN i
    ELSE CHOOSE j \in i..(Len(s) + 1) :
             /\ \A k \in i..(j - 1) : Is(s, k, JsonSpace)
             /\ ~Is(s, j, JsonSpace)

\* What a JavaScript value is taken for here: its type, for a boolean its
\* literal, for a string its code units, for a number its literal.
Undefined == [type |-> "undefined", text |-> <<>>]

\* The parse of a value failed; it ended before position pos with value val,
\* whose member relevant (of an object) is relevant.
NoParse == [ok |-> FALSE, pos |-> 0, val |-> Undefined, relevant |-> Undefined]
Parsed(pos, val, relevant) == [ok |-> TRUE, pos |-> pos, val |-> val, relevant |-> relevant]

\* The value of a hexadecimal digit.
HexValue(c) ==
    IF c \in Range(Digits) THEN c - 48
    \* "abcdef"
    ELSE IF c \in Range(<<97, 98, 99, 100, 101, 102>>) THEN c - 87
    ELSE c - 55

\* "0123456789abcdefABCDEF"
HexDigits == <<48, 49, 50, 51, 52, 53, 54, 55, 56, 57, 97, 98, 99, 100,
      101, 102, 65, 66, 67, 68, 69, 70>>

\* The code unit a backslash and c stand for.
Escaped(c) ==
    CASE c = 98 -> 8        \* \b
      [] c = 102 -> 12      \* \f
      [] c = 110 -> 10      \* \n
      [] c = 114 -> 13      \* \r
      [] c = 116 -> 9       \* \t
      [] OTHER -> c         \* \" \\ \/

\* The rest of a string literal from position j on, acc being the code units
\* read so far: up to the closing quotation mark.
RECURSIVE ParseChars(_, _, _)
ParseChars(s, j, acc) ==
    IF j > Len(s) THEN NoParse
    ELSE IF s[j] = 34 THEN Parsed(j + 1, [type |-> "string", text |-> acc], Undefined)
    ELSE IF s[j] < 32 THEN NoParse
    ELSE IF s[j] # 92 THEN ParseChars(s, j + 1, Append(acc, s[j]))
    \* ""\/bfnrt"
    ELSE IF Is(s, j + 1, <<34, 92, 47, 98, 102, 110, 114, 116>>) THEN ParseChars(s, j + 2, Append(acc, Escaped(s[j + 1])))
    ELSE IF /\ Is(s, j + 1, <<117>>)
            /\ \A k \in 2..5 : Is(s, j + k, HexDigits)
    THEN ParseChars(s, j + 6,
                    Append(acc, HexValue(s[j + 2]) * 4096 + HexValue(s[j + 3]) * 256
                                + HexValue(s[j + 4]) * 16 + HexValue(s[j + 5])))
    ELSE NoParse

\* A string literal at position i.
ParseString(s, i) == IF Is(s, i, <<34>>) THEN ParseChars(s, i + 1, <<>>) ELSE NoParse

\* The first position from i on that holds no digit.
SkipDigits(s, i) ==
    IF i > Len(s) THEN i
    ELSE CHOOSE j \in i..(Len(s) + 1) :
             /\ \A k \in i..(j - 1) : Is(s, k, Digits)
             /\ ~Is(s, j, Digits)

\* A number literal at position i:
\* -? (0 | [1-9][0-9]*) (. [0-9]+)? ([eE] [+-]? [0-9]+)?
ParseNumber(s, i) ==
    LET int == IF Is(s, i, <<45>>) THEN i + 1 ELSE i
        frac == IF Is(s, int, <<48>>) THEN int + 1 ELSE SkipDigits(s, int)
        exp == IF Is(s, frac, <<46>>) THEN SkipDigits(s, frac + 1) ELSE frac
        \* "eE"
        sign == IF Is(s, exp, <<101, 69>>) THEN exp + 1 ELSE exp
        \* "+-"
        digits == IF Is(s, sign, <<43, 45>>) THEN sign + 1 ELSE sign
        \* "eE"
        end == IF Is(s, exp, <<101, 69>>) THEN SkipDigits(s, digits) ELSE exp
    IN IF frac = int THEN NoParse
       ELSE IF Is(s, frac, <<46>>) /\ exp = frac + 1 THEN NoParse
       \* "eE"
       ELSE IF Is(s, exp, <<101, 69>>) /\ end = digits THEN NoParse
       ELSE Parsed(end, [type |-> "number", text |-> SubSeq(s, i, end - 1)], Undefined)

\* The literal word at position i, a value of the type.
ParseLiteral(s, i, word, type) ==
    IF At(s, word, i)
    THEN Parsed(i + Len(word), [type |-> type, text |-> word], Undefined)
    ELSE NoParse

RECURSIVE ParseValue(_, _)
RECURSIVE ParseElements(_, _)
RECURSIVE ParseMembers(_, _, _)

\* The elements of an array from position i on, up to the closing bracket.
ParseElements(s, i) ==
    LET v == ParseValue(s, i)
        k == SkipJsonSpace(s, v.pos)
    IN IF ~v.ok THEN NoParse
       ELSE IF Is(s, k, <<44>>) THEN ParseElements(s, SkipJsonSpace(s, k + 1))
       ELSE IF Is(s, k, <<93>>) THEN Parsed(k + 1, [type |-> "array", text |-> <<>>], Undefined)
       ELSE NoParse

\* The members of an object from position i on, up to the closing brace;
\* relevant is the value of the last member of that name read so far.
ParseMembers(s, i, relevant) ==
    LET key == ParseString(s, i)
        colon == SkipJsonSpace(s, key.pos)
        v == ParseValue(s, SkipJsonSpace(s, colon + 1))
        k == SkipJsonSpace(s, v.pos)
        \* "relevant"
        now == IF key.val.text = <<114, 101, 108, 101, 118, 97, 110, 116>> THEN v.val ELSE relevant
    IN IF ~key.ok THEN NoParse
       ELSE IF ~Is(s, colon, <<58>>) THEN NoParse
       ELSE IF ~v.ok THEN NoParse
       ELSE IF Is(s, k, <<44>>) THEN ParseMembers(s, SkipJsonSpace(s, k + 1), now)
       ELSE IF Is(s, k, <<125>>) THEN Parsed(k + 1, [type |-> "object", text |-> <<>>], now)
       ELSE NoParse

\* A value at position i.
ParseValue(s, i) ==
    IF Is(s, i, <<123>>)
    THEN LET k == SkipJsonSpace(s, i + 1)
         IN IF Is(s, k, <<125>>)
            THEN Parsed(k + 1, [type |-> "object", text |-> <<>>], Undefined)
            ELSE ParseMembers(s, k, Undefined)
    ELSE IF Is(s, i, <<91>>)
    THEN LET k == SkipJsonSpace(s, i + 1)
         IN IF Is(s, k, <<93>>)
            THEN Parsed(k + 1, [type |-> "array", text |-> <<>>], Undefined)
            ELSE ParseElements(s, k)
    ELSE IF Is(s, i, <<34>>) THEN ParseString(s, i)
    \* "true"
    ELSE IF Is(s, i, <<116>>) THEN ParseLiteral(s, i, <<116, 114, 117, 101>>, "boolean")
    \* "false"
    ELSE IF Is(s, i, <<102>>) THEN ParseLiteral(s, i, <<102, 97, 108, 115, 101>>, "boolean")
    \* "null"
    ELSE IF Is(s, i, <<110>>) THEN ParseLiteral(s, i, <<110, 117, 108, 108>>, "null")
    ELSE ParseNumber(s, i)

\* JSON.parse(txt): it throws a SyntaxError, or returns a value of the type.
\* relevant is what reading the member of that name of an object gives.
JSONparse(txt) ==
    LET v == ParseValue(txt, SkipJsonSpace(txt, 1))
    IN IF v.ok /\ SkipJsonSpace(txt, v.pos) = Len(txt) + 1
       THEN [threw |-> FALSE, type |-> v.val.type, relevant |-> v.relevant]
       ELSE [threw |-> TRUE, type |-> "undefined", relevant |-> Undefined]

(***************************************************************************)
(* !!v.  A number is false when it is zero: when its digits are zeros, or  *)
(* when it is so small that the nearest double is zero, which is the case  *)
(* up to 2^-1075 = 5^1075 * 10^-1075.                                      *)
(***************************************************************************)
\* The digits of 5^1075.
HalfMinValue == <<
    2, 4, 7, 0, 3, 2, 8, 2, 2, 9, 2, 0, 6, 2, 3, 2, 7, 2, 0, 8, 8, 2, 8, 4,
    3, 9, 6, 4, 3, 4, 1, 1, 0, 6, 8, 6, 1, 8, 2, 5, 2, 9, 9, 0, 1, 3, 0, 7,
    1, 6, 2, 3, 8, 2, 2, 1, 2, 7, 9, 2, 8, 4, 1, 2, 5, 0, 3, 3, 7, 7, 5, 3,
    6, 3, 5, 1, 0, 4, 3, 7, 5, 9, 3, 2, 6, 4, 9, 9, 1, 8, 1, 8, 0, 8, 1, 7,
    9, 9, 6, 1, 8, 9, 8, 9, 8, 2, 8, 2, 3, 4, 7, 7, 2, 2, 8, 5, 8, 8, 6, 5,
    4, 6, 3, 3, 2, 8, 3, 5, 5, 1, 7, 7, 9, 6, 9, 8, 9, 8, 1, 9, 9, 3, 8, 7,
    3, 9, 8, 0, 0, 5, 3, 9, 0, 9, 3, 9, 0, 6, 3, 1, 5, 0, 3, 5, 6, 5, 9, 5,
    1, 5, 5, 7, 0, 2, 2, 6, 3, 9, 2, 2, 9, 0, 8, 5, 8, 3, 9, 2, 4, 4, 9, 1,
    0, 5, 1, 8, 4, 4, 3, 5, 9, 3, 1, 8, 0, 2, 8, 4, 9, 9, 3, 6, 5, 3, 6, 1,
    5, 2, 5, 0, 0, 3, 1, 9, 3, 7, 0, 4, 5, 7, 6, 7, 8, 2, 4, 9, 2, 1, 9, 3,
    6, 5, 6, 2, 3, 6, 6, 9, 8, 6, 3, 6, 5, 8, 4, 8, 0, 7, 5, 7, 0, 0, 1, 5,
    8, 5, 7, 6, 9, 2, 6, 9, 9, 0, 3, 7, 0, 6, 3, 1, 1, 9, 2, 8, 2, 7, 9, 5,
    5, 8, 5, 5, 1, 3, 3, 2, 9, 2, 7, 8, 3, 4, 3, 3, 8, 4, 0, 9, 3, 5, 1, 9,
    7, 8, 0, 1, 5, 5, 3, 1, 2, 4, 6, 5, 9, 7, 2, 6, 3, 5, 7, 9, 5, 7, 4, 6,
    2, 2, 7, 6, 6, 4, 6, 5, 2, 7, 2, 8, 2, 7, 2, 2, 0, 0, 5, 6, 3, 7, 4, 0,
    0, 6, 4, 8, 5, 4, 9, 9, 9, 7, 7, 0, 9, 6, 5, 9, 9, 4, 7, 0, 4, 5, 4, 0,
    2, 0, 8, 2, 8, 1, 6, 6, 2, 2, 6, 2, 3, 7, 8, 5, 7, 3, 9, 3, 4, 5, 0, 7,
    3, 6, 3, 3, 9, 0, 0, 7, 9, 6, 7, 7, 6, 1, 9, 3, 0, 5, 7, 7, 5, 0, 6, 7,
    4, 0, 1, 7, 6, 3, 2, 4, 6, 7, 3, 6, 0, 0, 9, 6, 8, 9, 5, 1, 3, 4, 0, 5,
    3, 5, 5, 3, 7, 4, 5, 8, 5, 1, 6, 6, 6, 1, 1, 3, 4, 2, 2, 3, 7, 6, 6, 6,
    7, 8, 6, 0, 4, 1, 6, 2, 1, 5, 9, 6, 8, 0, 4, 6, 1, 9, 1, 4, 4, 6, 7, 2,
    9, 1, 8, 4, 0, 3, 0, 0, 5, 3, 0, 0, 5, 7, 5, 3, 0, 8, 4, 9, 0, 4, 8, 7,
    6, 5, 3, 9, 1, 7, 1, 1, 3, 8, 6, 5, 9, 1, 6, 4, 6, 2, 3, 9, 5, 2, 4, 9,
    1, 2, 6, 2, 3, 6, 5, 3, 8, 8, 1, 8, 7, 9, 6, 3, 6, 2, 3, 9, 3, 7, 3, 2,
    8, 0, 4, 2, 3, 8, 9, 1, 0, 1, 8, 6, 7, 2, 3, 4, 8, 4, 9, 7, 6, 6, 8, 2,
    3, 5, 0, 8, 9, 8, 6, 3, 3, 8, 8, 5, 8, 7, 9, 2, 5, 6, 2, 8, 3, 0, 2, 7,
    5, 5, 9, 9, 5, 6, 5, 7, 5, 2, 4, 4, 5, 5, 5, 0, 7, 2, 5, 5, 1, 8, 9, 3,
    1, 3, 6, 9, 0, 8, 3, 6, 2, 5, 4, 7, 7, 9, 1, 8, 6, 9, 4, 8, 6, 6, 7, 9,
    9, 4, 9, 6, 8, 3, 2, 4, 0, 4, 9, 7, 0, 5, 8, 2, 1, 0, 2, 8, 5, 1, 3, 1,
    8, 5, 4, 5, 1, 3, 9, 6, 2, 1, 3, 8, 3, 7, 7, 2, 2, 8, 2, 6, 1, 4, 5, 4,
    3, 7, 6, 9, 3, 4, 1, 2, 5, 3, 2, 0, 9, 8, 5, 9, 1, 3, 2, 7, 6, 6, 7, 2,
    3, 6, 3, 2, 8, 1, 2, 5>>

\* The digits of a number literal: those of the integer part and of the
\* fraction, without the zeros in front; how many stand behind the point;
\* the exponent, as far as it is below ExponentCap, and its sign.
ExponentCap == 10000000

RECURSIVE DigitsValue(_, _, _)
DigitsValue(s, i, acc) ==
    IF i > Len(s) THEN acc
    ELSE DigitsValue(s, i + 1, IF acc >= ExponentCap THEN ExponentCap ELSE acc * 10 + (s[i] - 48))

DropZeros(s) ==
    LET first == CHOOSE j \in 1..(Len(s) + 1) :
                     /\ \A k \in 1..(j - 1) : s[k] = 48
                     /\ j = Len(s) + 1 \/ s[j] # 48
    IN SubSeq(s, first, Len(s))

\* d1 <= d2 for two sequences of digits read as 0.d1 and 0.d2.
FractionAtMost(d1, d2) ==
    LET Digit(d, k) == IF k <= Len(d) THEN d[k] ELSE 48
        last == IF Len(d1) > Len(d2) THEN Len(d1) ELSE Len(d2)
    IN \A k \in 1..last :
           Digit(d1, k) > Digit(d2, k) => \E j \in 1..(k - 1) : Digit(d1, j) < Digit(d2, j)

NumberIsZero(text) ==
    LET from == IF Is(text, 1, <<45>>) THEN 2 ELSE 1
        \* "eE"
        e == IF \E k \in 1..Len(text) : Is(text, k, <<101, 69>>)
             \* "eE"
             THEN CHOOSE k \in 1..Len(text) : Is(text, k, <<101, 69>>)
             ELSE Len(text) + 1
        point == IF \E k \in 1..Len(text) : Is(text, k, <<46>>)
                 THEN CHOOSE k \in 1..Len(text) : Is(text, k, <<46>>)
                 ELSE e
        behind == IF point < e THEN e - point - 1 ELSE 0
        mantissa == DropZeros(SubSeq(text, from, point - 1) \o SubSeq(text, point + 1, e - 1))
        negative == Is(text, e + 1, <<45>>)
        \* "+-"
        first == IF Is(text, e + 1, <<43, 45>>) THEN e + 2 ELSE e + 1
        exponent == DigitsValue(text, first, 0)
        up == IF negative THEN 0 ELSE exponent
        down == IF negative THEN exponent ELSE 0
        \* The number is 0.mantissa * 10^(Len(mantissa) + up - behind - down),
        \* and 2^-1075 is 0.HalfMinValue * 10^(Len(HalfMinValue) - 1075).
        left == Len(mantissa) + up + 1075
        right == Len(HalfMinValue) + behind + down
    IN \/ mantissa = <<>>
       \/ left < right
       \/ left = right /\ FractionAtMost(mantissa, [k \in 1..Len(HalfMinValue) |-> HalfMinValue[k] + 48])

\* !!v.
ToBoolean(v) ==
    \* "true"
    CASE v.type = "boolean" -> v.text = <<116, 114, 117, 101>>
      [] v.type = "string" -> v.text # <<>>
      [] v.type = "number" -> ~NumberIsZero(v.text)
      [] v.type \in {"object", "array"} -> TRUE
      [] OTHER -> FALSE

\* retrievalLooksRelevant after its await: the texts of gate.output, trimmed
\* and parsed; false when JSON.parse throws or obj.relevant throws (obj null).
LooksRelevant(output) ==
    LET txt == trim(ItemsText(output))
        parsed == JSONparse(txt)
    IN IF parsed.threw THEN FALSE
       ELSE IF parsed.type = "null" THEN FALSE
       ELSE ToBoolean(parsed.relevant)

(***************************************************************************)
(* The state: the configuration read at startup, and one record per        *)
(* invocation of the /chat handler with its locals, the external calls it  *)
(* has issued, the results it has seen and the responses it has sent.      *)
(***************************************************************************)
VARIABLES
    variant,         \* which of the four servers runs
    apiKeySet,       \* OPENAI_API_KEY is set: client is not null
    vectorStoreSet,  \* VECTOR_STORE_ID is set
    assistantSet,    \* "asst": ASSISTANT_ID is set to an assistant's id
    listening,       \* the startup code reached app.listen
    req              \* the invocations of the handler, in order of arrival

vars == <<variant, apiKeySet, vectorStoreSet, assistantSet, listening, req>>

\* The largest number of requests of one run, and of words of a message of
\* the scope-gate specification.
MaxRequests == 2
MaxWords == 3

Requests == 1..MaxRequests

Variants == {"kw", "esm", "asst", "ret"}

\* The promise an async function returns: pending, fulfilled with a value,
\* or rejected with an error.
Pending == [state |-> "pending", value |-> FALSE, err |-> NoErr]
Fulfilled(value) == [state |-> "fulfilled", value |-> value, err |-> NoErr]
RejectedWith(err) == [state |-> "rejected", value |-> FALSE, err |-> err]

\* A slot no request has arrived for.
Idle ==
    [pc |-> "idle", body |-> [message |-> NoMessage, citations |-> "undefined"],
     message |-> <<>>, wantCitations |-> FALSE, decision |-> "None",
     calls |-> <<>>, seen |-> <<>>, promise |-> Pending, sent |-> <<>>]

\* The handler entered with body: its first two statements.
Entered(body) ==
    [pc |-> "run", body |-> body, message |-> MessageOf(body),
     wantCitations |-> WantCitationsOf(body), decision |-> "None",
     calls |-> <<>>, seen |-> <<>>, promise |-> Pending, sent |-> <<>>]

\* return res.json(...): the response is sent and the handler ends.
Reply(h, resp) == [h EXCEPT !.pc = "done", !.sent = Append(@, resp)]

\* The branch the handler takes.
Decide(h, decision) == [h EXCEPT !.decision = decision]

\* await of an external call: the call is issued and the handler suspends.
Await(h, call) == [h EXCEPT !.pc = call, !.calls = Append(@, call)]

\* The awaited call ends with result and the handler resumes.
Resume(h, result) == [h EXCEPT !.pc = "run", !.seen = Append(@, result)]

\* The call awaited inside an async function the handler awaits ends with
\* result: the function runs to its end and settles its promise; the
\* handler resumes in a later microtask.
Settle(h, result, promise) ==
    [h EXCEPT !.pc = "judged", !.seen = Append(@, result), !.promise = promise]

(***************************************************************************)
(* "kw": src/server.js 139-239.                                            *)
(***************************************************************************)
\* A faulty KwChat, for the sensitivity of C5: VECTOR_STORE_ID is not
\* checked before the call is issued.
KwChatWithoutStoreCheck(body) ==
    LET h == Entered(body)
    IN IF trim(h.message) = <<>>
       THEN Reply(Decide(h, "Empty"), Answered(AskPrompt))
       ELSE IF asksAuthorshipOrFeedback(h.message)
       THEN Reply(Decide(h, "Authorship"), Answered(DEVELOPER_LINE))
       ELSE IF isSoilsQuestion(h.message)
       THEN Reply(Decide(h, "Soils"), Answered(soilsRedirect))
       ELSE IF ~isInScope(h.message)
       THEN Reply(Decide(h, "OutOfScope"), Answered(outOfScope))
       ELSE IF ~apiKeySet
       THEN Reply(Decide(h, "InScope"), Failed(MissingApiKey))
       ELSE Await(Decide(h, "InScope"), "gen")

\* A faulty KwChat, for the sensitivity of C13: the soils check stands
\* before the authorship check.
KwChatSoilsFirst(body) ==
    LET h == Entered(body)
    IN IF trim(h.message) = <<>>
       THEN Reply(Decide(h, "Empty"), Answered(AskPrompt))
       ELSE IF isSoilsQuestion(h.message)
       THEN Reply(Decide(h, "Soils"), Answered(soilsRedirect))
       ELSE IF asksAuthorshipOrFeedback(h.message)
       THEN Reply(Decide(h, "Authorship"), Answered(DEVELOPER_LINE))
       ELSE IF ~isInScope(h.message)
       THEN Reply(Decide(h, "OutOfScope"), Answered(outOfScope))
       ELSE IF ~apiKeySet
       THEN Reply(Decide(h, "InScope"), Failed(MissingApiKey))
       ELSE IF ~vectorStoreSet
       THEN Reply(Decide(h, "InScope"), Failed(MissingVectorStore))
       ELSE Await(Decide(h, "InScope"), "gen")

\* A faulty KwChat, for the sensitivity of C14: the configuration is
\* checked before the scope gate.
KwChatConfigBeforeGate(body) ==
    LET h == Entered(body)
    IN IF trim(h.message) = <<>>
       THEN Reply(Decide(h, "Empty"), Answered(AskPrompt))
       ELSE IF asksAuthorshipOrFeedback(h.message)
       THEN Reply(Decide(h, "Authorship"), Answered(DEVELOPER_LINE))
       ELSE IF isSoilsQuestion(h.message)
       THEN Reply(Decide(h, "Soils"), Answered(soilsRedirect))
       ELSE IF ~apiKeySet
       THEN Reply(h, Failed(MissingApiKey))
       ELSE IF ~vectorStoreSet
       THEN Reply(h, Failed(MissingVectorStore))
       ELSE IF ~isInScope(h.message)
       THEN Reply(Decide(h, "OutOfScope"), Answered(outOfScope))
       ELSE Await(Decide(h, "InScope"), "gen")

\* From the entry to the first await or the response.
KwChat(body) ==
    LET h == Entered(body)
    IN IF trim(h.message) = <<>>
       THEN Reply(Decide(h, "Empty"), Answered(AskPrompt))
       ELSE IF asksAuthorshipOrFeedback(h.message)
       THEN Reply(Decide(h, "Authorship"), Answered(DEVELOPER_LINE))
       ELSE IF isSoilsQuestion(h.message)
       THEN Reply(Decide(h, "Soils"), Answered(soilsRedirect))
       ELSE IF ~isInScope(h.message)
       THEN Reply(Decide(h, "OutOfScope"), Answered(outOfScope))
       ELSE IF ~apiKeySet
       THEN Reply(Decide(h, "InScope"), Failed(MissingApiKey))
       ELSE IF ~vectorStoreSet
       THEN Reply(Decide(h, "InScope"), Failed(MissingVectorStore))
       ELSE Await(Decide(h, "InScope"), "gen")

\* A faulty KwAnswer, for the sensitivity of C6: a call that throws is
\* issued again.
KwAnswerRetrying(h0, result) ==
    LET h == Resume(h0, result)
    IN IF result.threw
       THEN Await(h, "gen")
       ELSE Reply(h, AnsweredCited(AnswerText(result.output), h.wantCitations,
                                   KwCitations(result.output)))

\* From the end of client.responses.create to the response.
KwAnswer(h0, result) ==
    LET h == Resume(h0, result)
    IN IF result.threw
       THEN Reply(h, Failed(ErrorText(result.err)))
       ELSE Reply(h, AnsweredCited(AnswerText(result.output), h.wantCitations,
                                   KwCitations(result.output)))

(***************************************************************************)
(* "ret": src/unnamed/part_000 116-209.                                    *)
(***************************************************************************)
RetChat(body) ==
    LET h == Entered(body)
    IN IF trim(h.message) = <<>>
       THEN Reply(Decide(h, "Empty"), Answered(AskPrompt))
       ELSE IF RetAsksAuthorshipOrFeedback(h.message)
       THEN Reply(Decide(h, "Authorship"), Answered(DEVELOPER_LINE))
       ELSE IF RetIsSoilsQuestion(h.message)
       THEN Reply(Decide(h, "Soils"), Answered(soilsRedirect))
       ELSE IF ~apiKeySet
       THEN Reply(h, Failed(MissingApiKey))
       ELSE IF ~vectorStoreSet
       THEN Reply(h, Failed(MissingVectorStore))
       ELSE Await(h, "gate")

\* retrievalLooksRelevant from the end of its call of
\* client.responses.create to its end: the call is not inside the try, so
\* its failure rejects the promise; otherwise the promise is fulfilled with
\* the judgment read from gate.output.
retrievalLooksRelevant(h, result) ==
    Settle(h, result, IF result.threw THEN RejectedWith(result.err)
                      ELSE Fulfilled(LooksRelevant(result.output)))

\* A faulty RetGate, for the sensitivity of C8: the refusal passes the
\* gatekeeper's text on.
RetGateEchoing(h0) ==
    LET h == [h0 EXCEPT !.pc = "run"]
    IN IF h.promise.state = "rejected"
       THEN Reply(h, Failed(ErrorText(h.promise.err)))
       ELSE IF ~h.promise.value
       THEN Reply(Decide(h, "OutOfScope"),
                  Answered(outOfScope \o <<32>> \o trim(ItemsText(h.seen[Len(h.seen)].output))))
       ELSE Await(Decide(h, "InScope"), "gen")

\* The handler resumed after await retrievalLooksRelevant(message), to the
\* response or to the second await: a rejection is caught by the catch
\* clause of the handler.
RetGate(h0) ==
    LET h == [h0 EXCEPT !.pc = "run"]
    IN IF h.promise.state = "rejected"
       THEN Reply(h, Failed(ErrorText(h.promise.err)))
       ELSE IF ~h.promise.value
       THEN Reply(Decide(h, "OutOfScope"), Answered(outOfScope))
       ELSE Await(Decide(h, "InScope"), "gen")

RetAnswer(h0, result) ==
    LET h == Resume(h0, result)
    IN IF result.threw
       THEN Reply(h, Failed(ErrorText(result.err)))
       ELSE Reply(h, AnsweredCited(AnswerText(result.output), h.wantCitations,
                                   RetCitations(result.output)))

(***************************************************************************)
(* "asst": src/server.js 478-523.                                          *)
(***************************************************************************)
AsstChat(body) ==
    LET h == Entered(body)
    IN IF trim(h.message) = <<>>
       THEN Reply(Decide(h, "Empty"), Answered(AskPrompt))
       ELSE IF AsstAsksAuthorshipOrFeedback(h.message)
       THEN Reply(Decide(h, "Authorship"), Answered(AsstDeveloperAnswer))
       ELSE IF RetIsSoilsQuestion(h.message)
       THEN Reply(Decide(h, "Soils"), Answered(AsstSoilsAnswer))
       ELSE IF ~apiKeySet \/ ~vectorStoreSet \/ ~assistantSet
       THEN Reply(h, Failed(AsstMissingConfig))
       ELSE Await(Decide(h, "InScope"), "threads.create")

\* The end of one of the first two calls: the catch clause answers with
\* err.message, otherwise the next call is issued.
AsstStep(h0, result, next) ==
    LET h == Resume(h0, result)
    IN IF result.threw
       THEN Reply(h, Failed(result.err.message))
       ELSE Await(h, next)

\* The end of runs.createAndPoll.
AsstRun(h0, result) ==
    LET h == Resume(h0, result)
    IN IF result.threw
       THEN Reply(h, Failed(result.err.message))
       \* "completed"
       ELSE IF result.status = <<99, 111, 109, 112, 108, 101, 116, 101, 100>>
       THEN Await(h, "messages.list")
       ELSE Reply(h, Failed(RunStatusPrefix \o result.status))

\* The end of messages.list: messages.data[0].content[0].text.value.
AsstList(h0, result) ==
    LET h == Resume(h0, result)
    IN IF result.threw
       THEN Reply(h, Failed(result.err.message))
       ELSE Reply(h, Answered(result.output[1].content[1].text))

(***************************************************************************)
(* "esm": src/server.js 342-418.                                           *)
(***************************************************************************)
\* The blank line between the two lines of an answer.
\* "\n\n"
BlankLine == <<10, 10>>

EsmChat(body) ==
    LET h == [Entered(body) EXCEPT !.message = body.message.text,
                                   !.wantCitations = FALSE]
    IN IF ~Truthy(body.message) \/ body.message.type # "string"
       THEN Reply([h EXCEPT !.message = <<>>], EsmFailed(400, EsmMissingMessage))
       ELSE IF soilAsked(h.message)
       THEN Reply(Decide(h, "Soils"),
                  EsmAnswered(IF developerInfoRequested(h.message)
                              THEN SOIL_TOOL_LINE \o BlankLine \o DEVELOPER_LINE
                              ELSE SOIL_TOOL_LINE))
       ELSE Await(h, "gen")

EsmAnswer(h0, result) ==
    LET h == Resume(h0, result)
        text == trim(ItemsText(result.output))
    IN IF result.threw
       THEN Reply(h, EsmFailed(500, EsmErrorText(result.err)))
       ELSE IF text = outOfScope
       THEN Reply(h, EsmAnswered(text))
       ELSE IF developerInfoRequested(h.message) /\ ~includes(text, DeveloperEmail)
       THEN Reply(h, EsmAnswered(text \o BlankLine \o DEVELOPER_LINE))
       ELSE Reply(h, EsmAnswered(text))

(***************************************************************************)
(* The inputs: request bodies, and what the external calls end with.       *)
(***************************************************************************)
Body(message, citations) == [message |-> message, citations |-> citations]

\* The request bodies of the server specification: one message for each
\* branch of the handlers, with and without a request for citations.
Bodies == {
    Body(NoMessage, "undefined"),
    \* " \u00A0\n"
    Body(StringMessage(<<32, 160, 10>>), "true"),
    \* "Feedback on soil"
    Body(StringMessage(<<70, 101, 101, 100, 98, 97, 99, 107, 32, 111, 110,
      32, 115, 111, 105, 108>>), "true"),
    \* "Soil"
    Body(StringMessage(<<83, 111, 105, 108>>), "false"),
    \* "apple pie"
    Body(StringMessage(<<97, 112, 112, 108, 101, 32, 112, 105, 101>>), "true"),
    \* "VT logging"
    Body(StringMessage(<<86, 84, 32, 108, 111, 103, 103, 105, 110, 103>>), "true"),
    \* "VT logging"
    Body(StringMessage(<<86, 84, 32, 108, 111, 103, 103, 105, 110, 103>>), "undefined")}

\* The words the messages of the scope-gate specification are made of.
Words == {
    <<32>>,                                                 \*  
    <<83, 111, 105, 108>>,                                  \* Soil
    <<115>>,                                                \* s
    <<116, 111, 112>>,                                      \* top
    <<119, 104, 111, 32, 119, 114, 111, 116, 101>>,         \* who wrote
    <<86, 84>>,                                             \* VT
    <<114, 101, 99, 105, 112, 101>>,                        \* recipe
    <<97, 109, 112>>}                                       \* amp

\* The messages of at most n words, written one after the other.
RECURSIVE Phrases(_)
Phrases(n) ==
    IF n = 0 THEN {<<>>}
    ELSE LET shorter == Phrases(n - 1)
         IN shorter \cup {p \o w : p \in shorter, w \in Words}

\* The request bodies of the scope-gate specification: the messages of at
\* most MaxWords words, a message that is a number, a question that has
\* nothing to do with forestry, a message that names the region and holds
\* both an unrelated word and an entry of the topic list (it takes four of
\* the words), and messages with white space and letters
\* from outside ASCII: no-break space and line tabulation; a no-break space
\* inside a soils phrase; KELVIN SIGN, which toLowerCase turns into k.
GateBodies ==
    {Body(StringMessage(p), "undefined") : p \in Phrases(MaxWords)}
    \* "42"
    \cup {Body(NumberMessage(<<52, 50>>), "true"),
          \* "What's a good recipe for apple pie?"
          Body(StringMessage(<<87, 104, 97, 116, 39, 115, 32, 97, 32, 103,
            111, 111, 100, 32, 114, 101, 99, 105, 112, 101, 32, 102, 111,
            114, 32, 97, 112, 112, 108, 101, 32, 112, 105, 101, 63>>), "true"),
          \* "VT recipe amp"
          Body(StringMessage(<<86, 84, 32, 114, 101, 99, 105, 112, 101, 32,
            97, 109, 112>>), "true"),
          \* "\u00A0\u000B"
          Body(StringMessage(<<160, 11>>), "true"),
          \* "drainage\u00A0class"
          Body(StringMessage(<<100, 114, 97, 105, 110, 97, 103, 101, 160, 99,
            108, 97, 115, 115>>), "true"),
          \* "FEEDBAC\u212A"
          Body(StringMessage(<<70, 69, 69, 68, 66, 65, 67, 8490>>), "true")}

\* "timeout"
TimedOut == Err(<<116, 105, 109, 101, 111, 117, 116>>)

\* What client.responses.create ends with when it is asked for the answer.
GenResults == {
    Rejected(TimedOut),
    Rejected(Err(<<>>)),
    \* " Use waterbars. "
    Resolved(<<MessageItem(<<OutputText(<<32, 85, 115, 101, 32, 119, 97, 116,
      101, 114, 98, 97, 114, 115, 46, 32>>, <<"AMP guide, p. 12">>)>>)>>),
    Resolved(<<FileSearchCall,
               \* "See "
               MessageItem(<<OutputText(<<83, 101, 101, 32>>, <<"AMP guide">>),
                             \* "AMPs."
                             OutputText(<<65, 77, 80, 115, 46>>, <<>>)>>)>>),
    Resolved(<<MessageItem(<<OutputText(<<32>>, <<>>)>>)>>)}

\* The same for "esm", whose handler looks into the text.
EsmGenResults == {
    Rejected(TimedOut),
    \* " Use waterbars. "
    Resolved(<<MessageItem(<<OutputText(<<32, 85, 115, 101, 32, 119, 97, 116,
      101, 114, 98, 97, 114, 115, 46, 32>>, <<>>)>>)>>),
    Resolved(<<MessageItem(<<OutputText(outOfScope, <<>>)>>)>>),
    Resolved(<<MessageItem(<<OutputText(DEVELOPER_LINE, <<>>)>>)>>)}

\* The texts the gatekeeper model answers with, and those of them the
\* server specification takes: a positive judgment and two negative ones.
GateTexts == {
    \* "\n"
    <<32>> \o JudgedRelevant \o <<10>>, JudgedIrrelevant, JudgedInWords, JudgedByNumber,
    JudgedNull, JudgedInProse}
\* "\n"
ServerGateTexts == {<<32>> \o JudgedRelevant \o <<10>>, JudgedIrrelevant, JudgedInProse}

\* What client.responses.create ends with in retrievalLooksRelevant, when
\* the gatekeeper answers with one of texts.
GateResultsOf(texts) ==
    {Rejected(TimedOut)}
    \cup {Resolved(<<FileSearchCall, MessageItem(<<OutputText(t, <<>>)>>)>>) :
            t \in texts}
GateResults == GateResultsOf(GateTexts)

\* What the calls of "asst" end with.
CallResults == {Rejected(TimedOut), Resolved(<<>>)}
\* "completed", "failed"
RunResults == {Rejected(TimedOut), RunEnded(<<99, 111, 109, 112, 108,
      101, 116, 101, 100>>), RunEnded(<<102,
      97, 105, 108, 101, 100>>)}
\* "Use waterbars."
ListResults == {Rejected(TimedOut), Resolved(<<ThreadMessage(<<85, 115,
      101, 32, 119, 97, 116, 101, 114, 98, 97, 114, 115, 46>>)>>)}

(***************************************************************************)
(* The actions: one per step of a handler between two awaits.              *)
(***************************************************************************)
\* A faulty Invocation, for the sensitivity of C9: message and wantCitations
\* are kept in variables of the module, which the latest request has set.
InvocationSharingLocals(r) ==
    LET latest == CHOOSE q \in Requests :
                      /\ req[q].pc # "idle"
                      /\ \A p \in Requests : req[p].pc # "idle" => p <= q
    IN [req[r] EXCEPT !.message = req[latest].message,
                      !.wantCitations = req[latest].wantCitations]

\* The locals of invocation r: every call of the handler has its own.
Invocation(r) == req[r]

\* A request arrives and the handler runs to its first await or to its
\* response.  Requests are numbered in the order they arrive.
Arrives(r) ==
    /\ listening
    /\ req[r].pc = "idle"
    /\ \A q \in Requests : q < r => req[q].pc # "idle"

Unchanged == UNCHANGED <<variant, apiKeySet, vectorStoreSet, assistantSet, listening>>

KwReceive(r, body) ==
    /\ variant = "kw" /\ Arrives(r)
    /\ req' = [req EXCEPT ![r] = KwChat(body)]
    /\ Unchanged

KwGenReturns(r, result) ==
    /\ variant = "kw" /\ req[r].pc = "gen"
    /\ req' = [req EXCEPT ![r] = KwAnswer(Invocation(r), result)]
    /\ Unchanged

RetReceive(r, body) ==
    /\ variant = "ret" /\ Arrives(r)
    /\ req' = [req EXCEPT ![r] = RetChat(body)]
    /\ Unchanged

\* The relevance call of request r ends: the rest of retrievalLooksRelevant
\* runs.  The handler of r resumes in a later microtask; steps of other
\* requests may run in between.
RetGateReturns(r, result) ==
    /\ variant = "ret" /\ req[r].pc = "gate"
    /\ req' = [req EXCEPT ![r] = retrievalLooksRelevant(Invocation(r), result)]
    /\ Unchanged

RetGateResumes(r) ==
    /\ variant = "ret" /\ req[r].pc = "judged"
    /\ req' = [req EXCEPT ![r] = RetGate(Invocation(r))]
    /\ Unchanged

RetGenReturns(r, result) ==
    /\ variant = "ret" /\ req[r].pc = "gen"
    /\ req' = [req EXCEPT ![r] = RetAnswer(Invocation(r), result)]
    /\ Unchanged

AsstReceive(r, body) ==
    /\ variant = "asst" /\ Arrives(r)
    /\ req' = [req EXCEPT ![r] = AsstChat(body)]
    /\ Unchanged

AsstThreadReturns(r, result) ==
    /\ variant = "asst" /\ req[r].pc = "threads.create"
    /\ req' = [req EXCEPT ![r] = AsstStep(Invocation(r), result, "messages.create")]
    /\ Unchanged

AsstMessageReturns(r, result) ==
    /\ variant = "asst" /\ req[r].pc = "messages.create"
    /\ req' = [req EXCEPT ![r] = AsstStep(Invocation(r), result, "runs.createAndPoll")]
    /\ Unchanged

AsstRunReturns(r, result) ==
    /\ variant = "asst" /\ req[r].pc = "runs.createAndPoll"
    /\ req' = [req EXCEPT ![r] = AsstRun(Invocation(r), result)]
    /\ Unchanged

AsstListReturns(r, result) ==
    /\ variant = "asst" /\ req[r].pc = "messages.list"
    /\ req' = [req EXCEPT ![r] = AsstList(Invocation(r), result)]
    /\ Unchanged

EsmReceive(r, body) ==
    /\ variant = "esm" /\ Arrives(r)
    /\ req' = [req EXCEPT ![r] = EsmChat(body)]
    /\ Unchanged

EsmGenReturns(r, result) ==
    /\ variant = "esm" /\ req[r].pc = "gen"
    /\ req' = [req EXCEPT ![r] = EsmAnswer(Invocation(r), result)]
    /\ Unchanged

(***************************************************************************)
(* The server: any of the four versions, started with any configuration,   *)
(* handling up to MaxRequests requests at a time.                          *)
(***************************************************************************)
\* The startup code.  "esm" throws before app.listen when VECTOR_STORE_ID
\* is missing.  Before that it calls new OpenAI({apiKey: undefined}) when
\* OPENAI_API_KEY is missing: the constructor is code of the SDK, not of
\* the repository, and it either throws, and the server does not start, or
\* returns a client, and the server starts.  The others start in every case.
Init ==
    /\ variant \in Variants
    /\ apiKeySet \in BOOLEAN
    /\ vectorStoreSet \in BOOLEAN
    /\ assistantSet \in (IF variant = "asst" THEN BOOLEAN ELSE {TRUE})
    /\ listening \in (IF variant # "esm" THEN {TRUE}
                      ELSE IF ~vectorStoreSet THEN {FALSE}
                      ELSE IF apiKeySet THEN {TRUE}
                      ELSE BOOLEAN)
    /\ req = [r \in Requests |-> Idle]

Next ==
    \E r \in Requests :
        \/ \E body \in Bodies : KwReceive(r, body)
        \/ \E result \in GenResults : KwGenReturns(r, result)
        \/ \E body \in Bodies : RetReceive(r, body)
        \/ \E result \in GateResultsOf(ServerGateTexts) : RetGateReturns(r, result)
        \/ RetGateResumes(r)
        \/ \E result \in GenResults : RetGenReturns(r, result)
        \/ \E body \in Bodies : AsstReceive(r, body)
        \/ \E result \in CallResults : AsstThreadReturns(r, result)
        \/ \E result \in CallResults : AsstMessageReturns(r, result)
        \/ \E result \in RunResults : AsstRunReturns(r, result)
        \/ \E result \in ListResults : AsstListReturns(r, result)
        \/ \E body \in Bodies : EsmReceive(r, body)
        \/ \E result \in EsmGenResults : EsmGenReturns(r, result)

Spec == Init /\ [][Next]_vars

(***************************************************************************)
(* The scope gate: the two servers with a gate ("kw" by keywords, "ret" by *)
(* retrieval), configured, handling one request whose message is any       *)
(* sequence of at most MaxWords words.                                     *)
(***************************************************************************)
InitGate ==
    /\ variant \in {"kw", "ret"}
    /\ apiKeySet = TRUE
    /\ vectorStoreSet = TRUE
    /\ assistantSet = TRUE
    /\ listening = TRUE
    /\ req = [r \in Requests |-> Idle]

NextGate ==
    \/ \E body \in GateBodies : KwReceive(1, body)
    \/ \E result \in GenResults : KwGenReturns(1, result)
    \/ \E body \in GateBodies : RetReceive(1, body)
    \/ \E result \in GateResults : RetGateReturns(1, result)
    \/ RetGateResumes(1)
    \/ \E result \in GenResults : RetGenReturns(1, result)

SpecGate == InitGate /\ [][NextGate]_vars


(***************************************************************************)
(* The specification of the authorship question: one request to "kw" or    *)
(* "ret" whose message holds "who wrote this" with every choice of upper   *)
(* and lower case for its letters, alone or between other text.            *)
(***************************************************************************)
\* "who wrote this"
WhoWroteThis == <<119, 104, 111, 32, 119, 114, 111, 116, 101, 32, 116,
      104, 105, 115>>

\* What stands before and after the question in the message.
\* "Soil: "
Prefixes == {<<>>, <<83, 111, 105, 108, 58, 32>>}
Suffixes == {<<>>, <<63>>}

\* The bodies whose message is the question with the letters at any set of
\* positions written as capitals, between a prefix and a suffix.
AuthorshipBodies ==
    LET Capital(c) ==
            IF \E i \in 1..Len(LowerCase) : LowerCase[i] = c
            THEN UpperCase[CHOOSE i \in 1..Len(LowerCase) : LowerCase[i] = c]
            ELSE c
        MixedCase(s, caps) ==
            [i \in 1..Len(s) |-> IF i \in caps THEN Capital(s[i]) ELSE s[i]]
        Letters(s) == {i \in 1..Len(s) : s[i] \in Range(LowerCase)}
    IN {Body(StringMessage(p \o MixedCase(WhoWroteThis, caps) \o s), "undefined") :
           p \in Prefixes, caps \in SUBSET Letters(WhoWroteThis), s \in Suffixes}

NextAuthorship ==
    \/ variant = "kw" /\ Arrives(1) /\ \E body \in AuthorshipBodies : KwReceive(1, body)
    \/ variant = "ret" /\ Arrives(1) /\ \E body \in AuthorshipBodies : RetReceive(1, body)

SpecAuthorship == InitGate /\ [][NextAuthorship]_vars

(***************************************************************************)
(* The specification of the configuration: one request to "kw" or "ret",   *)
(* with a message of at most MaxWords words, and OPENAI_API_KEY and        *)
(* VECTOR_STORE_ID each set or missing.                                    *)
(***************************************************************************)
InitConfig ==
    /\ variant \in {"kw", "ret"}
    /\ apiKeySet \in BOOLEAN
    /\ vectorStoreSet \in BOOLEAN
    /\ assistantSet = TRUE
    /\ listening = TRUE
    /\ req = [r \in Requests |-> Idle]

SpecConfig == InitConfig /\ [][NextGate]_vars
(***************************************************************************)
(* Vocabulary of the properties.                                           *)
(***************************************************************************)
Done(r) == req[r].pc = "done"
Started(r) == req[r].pc # "idle"
Response(r) == req[r].sent[1]

\* The message consists of white space only, or is empty.
Blank(s) == \A i \in 1..Len(s) : s[i] \in WhiteSpace

\* One of the words ws (in lower case) stands in s, in any case, with no
\* letter, digit or underscore next to it.
HasStandaloneWord(s, ws) ==
    \E w \in ws : \E i \in 1..Len(s) :
        /\ i + Len(w) - 1 <= Len(s)
        /\ toLowerCase(SubSeq(s, i, i + Len(w) - 1)) = w
        /\ i = 1 \/ s[i - 1] \notin WordChars
        /\ i + Len(w) > Len(s) \/ s[i + Len(w)] \notin WordChars

\* The message matches an authorship pattern of the server that runs.
MatchesAuthorship(s) ==
    CASE variant = "kw" -> asksAuthorshipOrFeedback(s)
      [] variant = "ret" -> RetAsksAuthorshipOrFeedback(s)
      [] variant = "asst" -> AsstAsksAuthorshipOrFeedback(s)
      [] OTHER -> FALSE

\* The message matches a soils pattern of the server that runs.
MatchesSoils(s) ==
    CASE variant = "kw" -> isSoilsQuestion(s)
      [] variant = "esm" -> soilAsked(s)
      [] OTHER -> RetIsSoilsQuestion(s)

\* The k-th external call of request r was call and resolved.
Succeeded(r, call) ==
    \E k \in 1..Len(req[r].seen) :
        req[r].calls[k] = call /\ ~req[r].seen[k].threw

\* An external call of request r threw.
SomeCallThrew(r) == \E k \in 1..Len(req[r].seen) : req[r].seen[k].threw

\* How often request r has issued call.
Issued(r, call) == Cardinality({k \in 1..Len(req[r].calls) : req[r].calls[k] = call})

ConfigMissing ==
    \/ ~apiKeySet
    \/ ~vectorStoreSet
    \/ variant = "asst" /\ ~assistantSet

(***************************************************************************)
(* C1.  Every request whose message is empty, missing or white space only  *)
(* is decided Empty and answered, with success = true, by the fixed        *)
(* prompt "Ask a Vermont forestry question.".                              *)
(* It fails for "esm", which answers a missing or empty message with       *)
(* status 400 and forwards a message of white space to the model.          *)
(***************************************************************************)
C1_BlankGetsPrompt ==
    \A r \in Requests :
        Started(r) /\ Blank(MessageOf(req[r].body)) =>
            /\ Done(r)
            /\ req[r].decision = "Empty"
            /\ req[r].sent = <<Answered(AskPrompt)>>

(***************************************************************************)
(* C2.  As claimed: every message of "kw" and "ret" that holds the         *)
(* standalone word "soil" or "soils" is decided Soils and answered by the  *)
(* soils redirect, whatever else it holds.                                 *)
(***************************************************************************)
C2_SoilWordGetsRedirect ==
    \A r \in Requests :
        /\ variant \in {"kw", "ret"}
        /\ Started(r)
        \* "soil", "soils"
        /\ HasStandaloneWord(req[r].message, {<<115, 111, 105, 108>>, <<115, 111, 105, 108,
          115>>})
        => /\ req[r].decision = "Soils"
           /\ req[r].sent = <<Answered(soilsRedirect)>>

(***************************************************************************)
(* C2, amended.  For every message of "kw" and "ret" that holds the        *)
(* standalone word "soil" or "soils", the soils detector matches; and      *)
(* when the message matches no authorship pattern (they are tried first),  *)
(* the request is decided Soils and answered by the soils redirect without *)
(* an external call, whatever else the message holds; when it matches an   *)
(* authorship pattern, the request is decided Authorship instead and       *)
(* answered by the developer line without an external call.                *)
(***************************************************************************)
C2_SoilWordGetsRedirectUnlessAuthorship ==
    \A r \in Requests :
        /\ variant \in {"kw", "ret"}
        /\ Started(r)
        \* "soil", "soils"
        /\ HasStandaloneWord(req[r].message, {<<115, 111, 105, 108>>, <<115, 111, 105, 108,
          115>>})
        => /\ MatchesSoils(req[r].message)
           /\ ~MatchesAuthorship(req[r].message) =>
                /\ Done(r)
                /\ req[r].decision = "Soils"
                /\ req[r].sent = <<Answered(soilsRedirect)>>
                /\ req[r].calls = <<>>
           /\ MatchesAuthorship(req[r].message) =>
                /\ Done(r)
                /\ req[r].decision = "Authorship"
                /\ req[r].sent = <<Answered(DEVELOPER_LINE)>>
                /\ req[r].calls = <<>>

\* A message with the word "soil" that also names the region has been
\* answered by the soils redirect.
C2_Witness ==
    \E r \in Requests :
        /\ Done(r)
        \* "soil", "soils"
        /\ HasStandaloneWord(req[r].message, {<<115, 111, 105, 108>>, <<115, 111, 105, 108,
          115>>})
        \* "vt"
        /\ HasStandaloneWord(req[r].message, {<<118, 116>>})
        /\ req[r].decision = "Soils"
        /\ req[r].sent = <<Answered(soilsRedirect)>>

(***************************************************************************)
(* C3.  As claimed: a message of "kw" that is not blank and matches        *)
(* neither the authorship nor the soils patterns is InScope if it names    *)
(* the region (the word "vermont" or "vt") or holds an entry of the topic  *)
(* list, and OutOfScope otherwise.                                         *)
(***************************************************************************)
\* "vermont", "vt"
NamesRegion(s) == HasStandaloneWord(s, {<<118, 101, 114, 109, 111, 110,
      116>>, <<118, 116>>})
HoldsTopic(s) == \E t \in topicSignals : includes(toLowerCase(s), t)
HoldsUnrelated(s) == \E w \in obviouslyUnrelated : includes(toLowerCase(s), w)

\* The requests the scope gate of "kw" decides.
ReachesScopeGate(r) ==
    /\ variant = "kw"
    /\ Started(r)
    /\ ~Blank(req[r].message)
    /\ ~asksAuthorshipOrFeedback(req[r].message)
    /\ ~isSoilsQuestion(req[r].message)

C3_RegionOrTopicIsInScope ==
    \A r \in Requests :
        ReachesScopeGate(r) =>
            req[r].decision =
                IF NamesRegion(req[r].message) \/ HoldsTopic(req[r].message)
                THEN "InScope" ELSE "OutOfScope"

(***************************************************************************)
(* C3, amended.  Such a message is InScope if it names the region and      *)
(* holds no word of the "obviously unrelated" list, or if it does not name *)
(* the region and holds an entry of the topic list; it is OutOfScope       *)
(* otherwise (also when it names the region, or holds a topic entry, next  *)
(* to an unrelated word and the region).                                   *)
(***************************************************************************)
C3_ScopeGateWithBlocklist ==
    \A r \in Requests :
        ReachesScopeGate(r) =>
            req[r].decision =
                IF NamesRegion(req[r].message)
                THEN (IF HoldsUnrelated(req[r].message) THEN "OutOfScope" ELSE "InScope")
                ELSE (IF HoldsTopic(req[r].message) THEN "InScope" ELSE "OutOfScope")

\* A message that names the region and holds both an unrelated word and an
\* entry of the topic list ('VT recipe amp') has been refused.
C3_Witness ==
    \E r \in Requests :
        /\ ReachesScopeGate(r) /\ Done(r)
        /\ NamesRegion(req[r].message)
        /\ HoldsUnrelated(req[r].message)
        /\ HoldsTopic(req[r].message)
        /\ req[r].decision = "OutOfScope"
        /\ req[r].sent = <<Answered(outOfScope)>>

(***************************************************************************)
(* C4.  In "kw" and "ret" a response carries a citations member if and     *)
(* only if the request was decided InScope, the generation call resolved   *)
(* and the request asked for citations; the responses of the other         *)
(* branches and the error responses carry none.                            *)
(***************************************************************************)
C4_CitationsOnlyWhenAsked ==
    \A r \in Requests :
        variant \in {"kw", "ret"} /\ Done(r) =>
            /\ Len(req[r].sent) = 1
            /\ "citations" \in Response(r).keys
                 <=> /\ req[r].decision = "InScope"
                     /\ Succeeded(r, "gen")
                     /\ WantCitationsOf(req[r].body)

\* An answer of the model has been sent with the citations asked for.
C4_Witness ==
    \E r \in Requests :
        /\ variant \in {"kw", "ret"} /\ Done(r)
        /\ WantCitationsOf(req[r].body)
        /\ "citations" \in Response(r).keys
        /\ Response(r).citations # <<>>

(***************************************************************************)
(* C5.  As claimed: when the API key or the vector store id is missing,    *)
(* every request to "kw" and "ret" fails with status 500, success = false  *)
(* and a fixed configuration error, and issues no external call.           *)
(***************************************************************************)
ConfigErrors == {Failed(MissingApiKey), Failed(MissingVectorStore)}

C5_MissingConfigFailsEveryRequest ==
    \A r \in Requests :
        variant \in {"kw", "ret"} /\ ConfigMissing /\ Started(r) =>
            /\ Done(r)
            /\ req[r].sent \in {<<e>> : e \in ConfigErrors}
            /\ req[r].calls = <<>>

\* The request passes the checks that come before the configuration check.
PassesKeywordChecks(r) ==
    /\ ~Blank(req[r].message)
    /\ ~MatchesAuthorship(req[r].message)
    /\ ~MatchesSoils(req[r].message)
    /\ variant = "kw" => \/ (NamesRegion(req[r].message) /\ ~HoldsUnrelated(req[r].message))
                         \/ (~NamesRegion(req[r].message) /\ HoldsTopic(req[r].message))

(***************************************************************************)
(* C5, amended.  When the API key or the vector store id is missing, every *)
(* request to "kw" and "ret" that passes the keyword checks (it is not     *)
(* blank, matches no authorship and no soils pattern and, in "kw", is in   *)
(* scope) fails with status 500, success = false and the fixed message     *)
(* that names the missing variable, and issues no external call; the       *)
(* requests the keyword checks answer get their fixed answer with status   *)
(* 200; and the server goes on accepting requests.                         *)
(***************************************************************************)
C5_MissingConfigFailsPastKeywordChecks ==
    variant \in {"kw", "ret"} /\ ConfigMissing =>
        /\ listening
        /\ \A r \in Requests :
             /\ Started(r) => Done(r) /\ req[r].calls = <<>> /\ Len(req[r].sent) = 1
             /\ Started(r) /\ PassesKeywordChecks(r) =>
                  Response(r) = IF ~apiKeySet THEN Failed(MissingApiKey)
                                ELSE Failed(MissingVectorStore)
             /\ Started(r) /\ ~PassesKeywordChecks(r) => Response(r).status = 200
             /\ req[r].pc = "idle" /\ (\A q \in Requests : q < r => Done(q)) => Arrives(r)

\* With the vector store id missing, a request has failed with the
\* configuration error and the next one has been answered.
C5_Witness ==
    \E r \in Requests : \E q \in Requests :
        /\ variant \in {"kw", "ret"} /\ apiKeySet /\ ~vectorStoreSet
        /\ r < q /\ Done(r) /\ Done(q)
        /\ PassesKeywordChecks(r)
        /\ Response(r) = Failed(MissingVectorStore)
        /\ Response(q).status = 200

(***************************************************************************)
(* C6.  In "kw" and "ret" a relevance or generation call that throws ends  *)
(* the request with status 500, success = false and an error text that     *)
(* carries the message of the failure; no call follows the one that threw, *)
(* and a request issues at most one relevance call and at most one         *)
(* generation call.                                                        *)
(***************************************************************************)
\* The relevance call of request r has ended and the handler has not
\* resumed yet.
Judged(r) == req[r].pc = "judged"

C6_FailedCallIsReportedNotRetried ==
    \A r \in Requests :
        variant \in {"kw", "ret"} =>
            /\ Issued(r, "gate") <= 1
            /\ Issued(r, "gen") <= 1
            /\ \A k \in 1..Len(req[r].seen) :
                 req[r].seen[k].threw =>
                    /\ k = Len(req[r].calls)
                    /\ Done(r) \/ Judged(r)
                    /\ Done(r) =>
                         /\ Len(req[r].sent) = 1
                         /\ Response(r).status = 500
                         /\ Response(r).success = FALSE
                         /\ Response(r).keys = {"success", "error"}
                         /\ Response(r).error # <<>>
                         /\ includes(Response(r).error, req[r].seen[k].err.message)

\* A generation call has thrown after a relevance call that resolved, and
\* the request has been answered with the message of the failure.
C6_Witness ==
    \E r \in Requests :
        /\ variant = "ret" /\ Done(r)
        /\ req[r].calls = <<"gate", "gen">>
        /\ req[r].seen[2].threw
        \* "timeout"
        /\ Response(r) = Failed(<<116, 105, 109, 101, 111, 117, 116>>)

(***************************************************************************)
(* C7.  In "ret", when the relevance call returns a judgment that is not   *)
(* the expected structured output with relevant = true (it is negative, or *)
(* it cannot be parsed as {"relevant": true|false, ...}), the request is   *)
(* answered by the fixed refusal with status 200 and success = true and no *)
(* generation call is issued; a generation call follows only a relevance   *)
(* call that resolved with a positive judgment.                            *)
(* It fails for a judgment that is valid JSON with a relevant member that  *)
(* is no boolean but truthy, such as {"relevant":"false"}.                 *)
(***************************************************************************)
\* The text the gatekeeper returned says, in the structure asked for, that
\* the excerpts are relevant.
PositiveJudgment(output) ==
    LET parsed == JSONparse(trim(ItemsText(output)))
    IN /\ ~parsed.threw
       /\ parsed.type = "object"
       \* "true"
       /\ parsed.relevant = [type |-> "boolean", text |-> <<116, 114, 117,
         101>>]

C7_NegativeOrUnparsableRefuses ==
    \A r \in Requests :
        variant = "ret" =>
            /\ Issued(r, "gen") > 0 =>
                 /\ req[r].calls = <<"gate", "gen">>
                 /\ ~req[r].seen[1].threw
                 /\ PositiveJudgment(req[r].seen[1].output)
            /\ /\ Len(req[r].seen) > 0
               /\ ~req[r].seen[1].threw
               /\ ~PositiveJudgment(req[r].seen[1].output)
               => /\ req[r].calls = <<"gate">>
                  /\ Done(r) \/ Judged(r)
                  /\ Done(r) => req[r].sent = <<Answered(outOfScope)>>

(***************************************************************************)
(* C8.  In "kw" and "ret" two requests with the same message and the same  *)
(* wantCitations that both end in a deterministic branch (Empty,           *)
(* Authorship, Soils, OutOfScope) get the same response, whatever requests *)
(* came before and whatever the external calls returned.                   *)
(***************************************************************************)
Deterministic == {"Empty", "Authorship", "Soils", "OutOfScope"}

C8_DeterministicBranchesRepeat ==
    \A r \in Requests : \A q \in Requests :
        /\ variant \in {"kw", "ret"}
        /\ Done(r) /\ Done(q)
        /\ MessageOf(req[r].body) = MessageOf(req[q].body)
        /\ WantCitationsOf(req[r].body) = WantCitationsOf(req[q].body)
        /\ req[r].decision \in Deterministic
        /\ req[q].decision \in Deterministic
        => req[r].sent = req[q].sent

\* Two requests with the same message have been refused after relevance
\* calls that returned different texts.
C8_Witness ==
    \E r \in Requests : \E q \in Requests :
        /\ variant = "ret" /\ r # q /\ Done(r) /\ Done(q)
        /\ req[r].body = req[q].body
        /\ req[r].decision = "OutOfScope" /\ req[q].decision = "OutOfScope"
        /\ req[r].seen # req[q].seen
        /\ req[r].sent = req[q].sent

(***************************************************************************)
(* C9.  Under every interleaving of the requests, each request is where    *)
(* the handler would be had it run alone with the same body and the same   *)
(* results of its external calls: the same calls issued, the same          *)
(* decision, the same response.                                            *)
(***************************************************************************)
\* The handler entered with body.
Chat(body) ==
    CASE variant = "kw" -> KwChat(body)
      [] variant = "ret" -> RetChat(body)
      [] variant = "asst" -> AsstChat(body)
      [] variant = "esm" -> EsmChat(body)

\* The handler resumed with the result of the call it awaits.
Resumed(h, result) ==
    CASE variant = "kw" -> KwAnswer(h, result)
      [] variant = "ret" /\ h.pc = "gate" -> retrievalLooksRelevant(h, result)
      [] variant = "ret" /\ h.pc = "gen" -> RetAnswer(h, result)
      [] variant = "asst" /\ h.pc = "threads.create" -> AsstStep(h, result, "messages.create")
      [] variant = "asst" /\ h.pc = "messages.create" -> AsstStep(h, result, "runs.createAndPoll")
      [] variant = "asst" /\ h.pc = "runs.createAndPoll" -> AsstRun(h, result)
      [] variant = "asst" /\ h.pc = "messages.list" -> AsstList(h, result)
      [] variant = "esm" -> EsmAnswer(h, result)

\* The handler run alone from h over the results of its calls.
RECURSIVE RunAlone(_, _)
RunAlone(h, results) ==
    IF results = <<>> \/ h.pc = "done" THEN h
    ELSE IF h.pc = "judged" THEN RunAlone(RetGate(h), results)
    ELSE RunAlone(Resumed(h, results[1]), Tail(results))

C9_RequestsAreIndependent ==
    \A r \in Requests :
        Started(r) =>
            LET alone == RunAlone(Chat(req[r].body), req[r].seen)
            IN \/ req[r] = alone
               \/ alone.pc = "judged" /\ req[r] = RetGate(alone)

\* A later request with another body has been answered after an external
\* call while an earlier one still awaits its call.
C9_Witness ==
    \E r \in Requests : \E q \in Requests :
        /\ r < q
        /\ req[r].pc \notin {"idle", "done"}
        /\ Done(q) /\ req[q].seen # <<>>
        /\ req[q].message # req[r].message
        /\ req[q].wantCitations # req[r].wantCitations

(***************************************************************************)
(* C10.  In "kw", "ret" and "asst" a request gets at most one response,    *)
(* and exactly one once its handler has ended; the response has status 200 *)
(* with success = true, an answer and no error, or status 500 with         *)
(* success = false, an error and no answer; and status 500 comes only with *)
(* a missing configuration or a failed external call (a call that threw,   *)
(* or a run that ended in another status than completed).                  *)
(***************************************************************************)
\* The run of request r ended without completing.
RunFailed(r) ==
    \E k \in 1..Len(req[r].seen) :
        /\ req[r].calls[k] = "runs.createAndPoll"
        /\ ~req[r].seen[k].threw
        \* "completed"
        /\ req[r].seen[k].status # <<99, 111, 109, 112, 108, 101, 116, 101,
          100>>

C10_OneResponseOfTwoShapes ==
    \A r \in Requests :
        variant \in {"kw", "ret", "asst"} =>
            /\ Len(req[r].sent) = (IF Done(r) THEN 1 ELSE 0)
            /\ Done(r) =>
                 \/ /\ Response(r).status = 200
                    /\ Response(r).success = TRUE
                    /\ {"success", "answer"} \subseteq Response(r).keys
                    /\ "error" \notin Response(r).keys
                    /\ Response(r).answer # <<>>
                 \/ /\ Response(r).status = 500
                    /\ Response(r).success = FALSE
                    /\ Response(r).keys = {"success", "error"}
                    /\ ConfigMissing \/ SomeCallThrew(r) \/ RunFailed(r)

\* One request has been answered with status 200 and one with status 500
\* after a run that failed.
C10_Witness ==
    \E r \in Requests : \E q \in Requests :
        /\ Done(r) /\ Done(q)
        \* "Use waterbars."
        /\ Response(r).status = 200 /\ Response(r).answer = <<85, 115, 101,
          32, 119, 97, 116, 101, 114, 98, 97, 114, 115, 46>>
        /\ Response(q).status = 500 /\ RunFailed(q)


(***************************************************************************)
(* C11.  In "kw" and "ret" every request whose message holds "who wrote    *)
(* this", in any mix of upper and lower case, is decided Authorship and    *)
(* answered with status 200, success = true and the developer-contact      *)
(* text, without an external call.                                         *)
(***************************************************************************)
\* The developer-contact text of the claim.
\* "Please contact the developer with your questions or feedback (steve@northeastforests.com)."
DeveloperContact == <<80, 108, 101, 97, 115, 101, 32, 99, 111, 110, 116,
      97, 99, 116, 32, 116, 104, 101, 32, 100, 101, 118, 101, 108, 111, 112,
      101, 114, 32, 119, 105, 116, 104, 32, 121, 111, 117, 114, 32, 113, 117,
      101, 115, 116, 105, 111, 110, 115, 32, 111, 114, 32, 102, 101, 101,
      100, 98, 97, 99, 107, 32, 40, 115, 116, 101, 118, 101, 64, 110, 111,
      114, 116, 104, 101, 97, 115, 116, 102, 111, 114, 101, 115, 116, 115,
      46, 99, 111, 109, 41, 46>>

\* The message holds "who wrote this" when case is ignored.
HoldsWhoWroteThis(m) == includes(toLowerCase(m), WhoWroteThis)

C11_WhoWroteThisIsAuthorship ==
    \A r \in Requests :
        Started(r) /\ HoldsWhoWroteThis(MessageOf(req[r].body)) =>
            /\ Done(r)
            /\ req[r].decision = "Authorship"
            /\ req[r].sent = <<Answered(DeveloperContact)>>
            /\ req[r].calls = <<>>

\* "ret" has answered a message that holds the question in mixed case,
\* after a soil word.
C11_Witness ==
    /\ variant = "ret"
    /\ Done(1)
    \* "Soil: wHo WROTE thIs?"
    /\ req[1].message = <<83, 111, 105, 108, 58, 32, 119, 72, 111, 32, 87,
      82, 79, 84, 69, 32, 116, 104, 73, 115, 63>>
    /\ req[1].decision = "Authorship"
    /\ Response(1).answer = DeveloperContact

(***************************************************************************)
(* C12.  In "kw" every request with the message "What's a good recipe for  *)
(* apple pie?" is decided OutOfScope by the keyword gate and answered with *)
(* status 200, success = true and exactly the sentence "Your request is    *)
(* beyond the scope and purpose of this app.", without an external call,   *)
(* whatever the configuration.                                             *)
(***************************************************************************)
\* "What's a good recipe for apple pie?"
ApplePieQuestion == <<87, 104, 97, 116, 39, 115, 32, 97, 32, 103, 111,
      111, 100, 32, 114, 101, 99, 105, 112, 101, 32, 102, 111, 114, 32, 97,
      112, 112, 108, 101, 32, 112, 105, 101, 63>>

\* The refusal sentence of the claim.
\* "Your request is beyond the scope and purpose of this app."
RefusalSentence == <<89, 111, 117, 114, 32, 114, 101, 113, 117, 101, 115,
      116, 32, 105, 115, 32, 98, 101, 121, 111, 110, 100, 32, 116, 104, 101,
      32, 115, 99, 111, 112, 101, 32, 97, 110, 100, 32, 112, 117, 114, 112,
      111, 115, 101, 32, 111, 102, 32, 116, 104, 105, 115, 32, 97, 112, 112,
      46>>

C12_ApplePieIsRefused ==
    \A r \in Requests :
        variant = "kw" /\ Started(r) /\ MessageOf(req[r].body) = ApplePieQuestion =>
            /\ Done(r)
            /\ req[r].decision = "OutOfScope"
            /\ req[r].sent = <<Answered(RefusalSentence)>>
            /\ req[r].calls = <<>>

\* "kw" has refused the question with the API key missing.
C12_Witness ==
    /\ variant = "kw"
    /\ ~apiKeySet
    /\ Done(1)
    /\ req[1].message = ApplePieQuestion
    /\ req[1].decision = "OutOfScope"
    /\ Response(1).answer = RefusalSentence
    /\ req[1].calls = <<>>

(***************************************************************************)
(* C13.  In "kw" and "ret" the checks run in the order Empty, Authorship,  *)
(* Soils, scope gate, and the first that matches decides the response: a   *)
(* blank message gets the prompt; otherwise a message that matches an      *)
(* authorship pattern gets the developer-contact text, also when it        *)
(* matches a soils pattern; otherwise a message that matches a soils       *)
(* pattern gets the soils redirect, whatever the scope gate would say;     *)
(* only the other messages reach the scope gate (the keyword gate of "kw", *)
(* the relevance call of "ret").                                           *)
(***************************************************************************)
\* The first check the message matches, in the order of the claim.
FirstMatch(s) ==
    IF Blank(s) THEN "Empty"
    ELSE IF MatchesAuthorship(s) THEN "Authorship"
    ELSE IF MatchesSoils(s) THEN "Soils"
    ELSE "ScopeGate"

\* The soils-redirect text of the claim.
\* "For soils questions, use the official soil map tool (Web Soil Survey) for your specific location."
SoilsRedirectText == <<70, 111, 114, 32, 115, 111, 105, 108, 115, 32,
      113, 117, 101, 115, 116, 105, 111, 110, 115, 44, 32, 117, 115, 101, 32,
      116, 104, 101, 32, 111, 102, 102, 105, 99, 105, 97, 108, 32, 115, 111,
      105, 108, 32, 109, 97, 112, 32, 116, 111, 111, 108, 32, 40, 87, 101,
      98, 32, 83, 111, 105, 108, 32, 83, 117, 114, 118, 101, 121, 41, 32,
      102, 111, 114, 32, 121, 111, 117, 114, 32, 115, 112, 101, 99, 105, 102,
      105, 99, 32, 108, 111, 99, 97, 116, 105, 111, 110, 46>>

\* The scope gate of the server that runs has decided request r, or is
\* about to: "kw" has taken the answer of isInScope, "ret" has issued the
\* relevance call first of all.
DecidedByScopeGate(r) ==
    CASE variant = "kw" ->
           /\ req[r].decision = (IF isInScope(req[r].message) THEN "InScope" ELSE "OutOfScope")
           /\ req[r].decision = "OutOfScope" => req[r].sent = <<Answered(RefusalSentence)>>
           /\ req[r].decision = "InScope" => Len(req[r].calls) > 0 /\ req[r].calls[1] = "gen"
      [] variant = "ret" ->
           /\ Len(req[r].calls) > 0 /\ req[r].calls[1] = "gate"
           /\ req[r].decision \in {"None", "InScope", "OutOfScope"}
      [] OTHER -> FALSE

C13_FirstMatchingCheckDecides ==
    \A r \in Requests :
        variant \in {"kw", "ret"} /\ Started(r) =>
            CASE FirstMatch(MessageOf(req[r].body)) = "Empty" ->
                   /\ req[r].decision = "Empty"
                   /\ req[r].sent = <<Answered(AskPrompt)>>
                   /\ req[r].calls = <<>>
              [] FirstMatch(MessageOf(req[r].body)) = "Authorship" ->
                   /\ req[r].decision = "Authorship"
                   /\ req[r].sent = <<Answered(DeveloperContact)>>
                   /\ req[r].calls = <<>>
              [] FirstMatch(MessageOf(req[r].body)) = "Soils" ->
                   /\ req[r].decision = "Soils"
                   /\ req[r].sent = <<Answered(SoilsRedirectText)>>
                   /\ req[r].calls = <<>>
              [] OTHER -> DecidedByScopeGate(r)

\* A message that matches an authorship and a soils pattern has got the
\* developer-contact text.
C13_Witness ==
    /\ Done(1)
    /\ MatchesAuthorship(req[1].message)
    \* "soil", "soils"
    /\ HasStandaloneWord(req[1].message, {<<115, 111, 105, 108>>, <<115, 111, 105, 108, 115>>})
    /\ MatchesSoils(req[1].message)
    /\ req[1].decision = "Authorship"
    /\ Response(1).answer = DeveloperContact

(***************************************************************************)
(* C14.  In "kw" and "ret" a request decided Empty, Authorship or Soils,   *)
(* and in "kw" a request decided OutOfScope, is answered with status 200   *)
(* and success = true without an external call, also when the API key or   *)
(* the vector store id is missing; a request that does not pass the        *)
(* keyword checks is decided that way, and the configuration error is sent *)
(* only to requests that pass all of them.                                 *)
(***************************************************************************)
\* The decisions the keyword checks of the server that runs take.
KeywordDecisions ==
    {"Empty", "Authorship", "Soils"} \cup (IF variant = "kw" THEN {"OutOfScope"} ELSE {})

C14_KeywordBranchesNeedNoConfig ==
    \A r \in Requests :
        variant \in {"kw", "ret"} /\ Started(r) =>
            /\ req[r].decision \in KeywordDecisions =>
                 /\ Done(r)
                 /\ Response(r).status = 200
                 /\ Response(r).success = TRUE
                 /\ Response(r).keys = {"success", "answer"}
                 /\ req[r].calls = <<>>
            /\ ~PassesKeywordChecks(r) => req[r].decision \in KeywordDecisions
            /\ req[r].sent \in {<<e>> : e \in ConfigErrors} =>
                 /\ ConfigMissing
                 /\ PassesKeywordChecks(r)
                 /\ req[r].calls = <<>>

\* With the vector store id missing, "kw" has refused a message that names
\* the region next to an unrelated word, with status 200 and without a call.
C14_Witness ==
    /\ variant = "kw"
    /\ apiKeySet /\ ~vectorStoreSet
    /\ Done(1)
    /\ NamesRegion(req[1].message)
    /\ req[1].decision = "OutOfScope"
    /\ Response(1).status = 200
    /\ Response(1).success = TRUE
    /\ req[1].calls = <<>>
=============================================================================
